---- MODULE Spec2Model ----
(***************************************************************************)
(* One collection cycle of the Ruckus connector (connector.py,             *)
(* WiFiConnector.collect_and_store) with the pure code it calls:           *)
(* DataTransformer.transform_zone_to_frontend / transform_venue_data       *)
(* (transformers.py), WiFiConnector._calculate_zone_metrics, the offline   *)
(* classification of lines 89-107 and CauseCodeGenerator                   *)
(* (cause_code_generator.py).                                              *)
(*                                                                         *)
(* Representation.                                                         *)
(*  - A JSON value of a raw record is [k, n, s]: k = "absent" (the key is  *)
(*    not in the dict), "null" (None), "num" (the number n) or "str" (the  *)
(*    string s, a sequence of one-character strings, so that lower(),      *)
(*    upper() and `in` are computed character by character).               *)
(*  - A value rounded to 1 decimal is held as an integer number of tenths  *)
(*    (apAvailability = 900 is 90.0), one rounded to 2 decimals as         *)
(*    hundredths (clientsPerAP = 222 is 2.22).  An unrounded quotient is   *)
(*    held exactly as <<numerator, denominator>>.                          *)
(*  - A cause-code definition is referred to by its index in CAUSE_CODES;  *)
(*    the list weighted_codes, which is only ever drawn from uniformly,    *)
(*    is held as the bag of its entries.                                   *)
(***************************************************************************)
EXTENDS Integers, Sequences, FiniteSets, Bags, TLC

VARIABLES
    pc,               \* position of collect_and_store
    ruckus_zones,     \* connector.py:46
    frontend_zones,   \* connector.py:50, mutated in place by _calculate_zone_metrics
    all_aps,          \* connector.py:58
    all_clients,      \* connector.py:71
    venue_data,       \* connector.py:81
    disconnected_aps, \* connector.py:90
    ap_cause_codes,   \* connector.py:109
    error,            \* the exception caught at connector.py:144 ("" when none)
    weighted_codes,   \* cause_code_generator.py:139, CauseCodeGenerator.weighted_codes
    draw,             \* what the latest generate_cause_code drew from `random`
    previous,         \* the records and results of an earlier cycle of this process
    rng,              \* the state of the module `random`, shared by every assigner
    seeded,           \* assigner instance -> the seed it was constructed with
    returned,         \* assigner instance -> what its calls have returned so far
    at,               \* where the thread that called run_continuous is
    running,          \* self.running
    closed,           \* the writer has been closed (stop)
    stop_called,      \* "never", or when stop() was called: "early", "in_loop"
    clock,            \* the time of day
    timestamp,        \* the local of collect_and_store
    group,            \* the measurement group whose points are built next
    points,           \* the local of collect_and_store
    written,          \* the batches handed to write_points in this cycle
    failed,           \* a step of this cycle has raised
    failures,         \* the number of cycles in which a step has raised
    logged,           \* line 145 has logged the exception of this cycle
    started,          \* the number of calls of collect_and_store
    finished,         \* the number of calls of collect_and_store that have returned
    waited,           \* line 384 has slept since the last cycle returned
    authenticated,    \* self._authenticated
    fn,               \* the fetch in progress or returned: get_zones, get_aps, get_clients
    page,             \* the local of the fetch
    fetched,          \* the local zones / aps / clients of the fetch
    requested,        \* the pages the fetch has asked _make_request for
    replies,          \* what _make_request has returned to the fetch
    mr,               \* where the _make_request call in progress is
    response,         \* the local of _make_request
    result,           \* what the last _make_request call returned
    relogins,         \* the calls of _login after a 401 in this call
    relogin_ok,       \* the last of them returned True
    retries,          \* the requests repeated after a 401 in this call
    login_status      \* the status of the reply on which the last _login returned

\* cause_code_generator.py: the assigner instances of a process and the
\* random source they share
assigner_vars == <<rng, seeded, returned>>

\* the variables no step of collect_and_store reads or writes (the
\* connector's own assigner is constructed without a seed: what it draws
\* is any element of the list, see GenerateCauseCode)
\* connector.py: run_continuous, stop and the control flow of
\* collect_and_store
run_vars ==
    <<at, running, closed, stop_called, clock, timestamp, group, points,
      written, failed, failures, logged, started, finished, waited>>

\* ruckus_client.py: a RuckusClient and the fetch it is running
client_vars ==
    <<authenticated, fn, page, fetched, requested, replies, mr, response,
      result, relogins, relogin_ok, retries, login_status>>

beyond_cycle == <<previous, assigner_vars, run_vars, client_vars>>

vars == <<pc, ruckus_zones, frontend_zones, all_aps, all_clients, venue_data,
          disconnected_aps, ap_cause_codes, error, weighted_codes, draw,
          beyond_cycle>>

----------------------------------------------------------------------------
(* JSON values and Python's dict.get, truthiness and `or`. *)

Absent == [k |-> "absent", n |-> 0, s |-> <<>>]
None == [k |-> "null", n |-> 0, s |-> <<>>]
Num(i) == [k |-> "num", n |-> i, s |-> <<>>]
Str(cs) == [k |-> "str", n |-> 0, s |-> cs]

\* d.get(key, default): the default only when the key is missing; a key
\* present with the value None yields None.
Get(v, default) == IF v.k = "absent" THEN default ELSE v

\* d.get(key): None when the key is missing.
GetOrNone(v) == IF v.k = "absent" THEN None ELSE v

\* bool(v)
Truthy(v) == \/ v.k = "num" /\ v.n # 0
             \/ v.k = "str" /\ v.s # <<>>

\* (v or 0) for a numeric-or-missing field
OrZero(v) == IF Truthy(v) THEN v.n ELSE 0

\* (v or "")
OrEmpty(v) == IF Truthy(v) THEN v ELSE Str(<<>>)

IsNum(v) == v.k = "num"
IsStr(v) == v.k = "str"

----------------------------------------------------------------------------
(* round(x, ndigits) of Python 3 on the quotient a/b (b > 0), scaled to an *)
(* integer by the caller: nearest integer, exact ties to the even one.     *)

RoundDiv(a, b) ==
    LET f == a \div b
        r2 == 2 * (a - f * b)
    IN  IF r2 < b THEN f
        ELSE IF r2 > b THEN f + 1
        ELSE IF f % 2 = 0 THEN f ELSE f + 1

RECURSIVE SumSeq(_)
SumSeq(s) == IF s = <<>> THEN 0 ELSE Head(s) + SumSeq(Tail(s))

RECURSIVE SeqsUpTo(_, _)
\* all sequences over S of length 0..n
SeqsUpTo(S, n) ==
    IF n = 0 THEN {<<>>}
    ELSE LET shorter == SeqsUpTo(S, n - 1)
         IN  shorter \cup {Append(q, x) : q \in {t \in shorter : Len(t) = n - 1}, x \in S}

----------------------------------------------------------------------------
(* transformers.py: DataTransformer.transform_zone_to_frontend *)

\* line 18 with the offline count left out
BadTotalAPs(online, offline) == online

\* line 18
TotalAPs(online, offline) == online + offline

\* the ratio of line 24 inverted
BadApAvailability(connected_aps, total_aps) ==
    IF connected_aps > 0 THEN RoundDiv(total_aps * 1000, connected_aps) ELSE 0

\* lines 24 and 36, in tenths
ApAvailability(connected_aps, total_aps) ==
    IF total_aps > 0 THEN RoundDiv(connected_aps * 1000, total_aps) ELSE 0

\* lines 27 and 37 with round(..., 1) for round(..., 2), in hundredths
CoarseClientsPerAP(clients, connected_aps) ==
    IF connected_aps > 0 THEN 10 * RoundDiv(clients * 10, connected_aps) ELSE 0

\* lines 27 and 37, in hundredths
ClientsPerAP(clients, connected_aps) ==
    IF connected_aps > 0 THEN RoundDiv(clients * 100, connected_aps) ELSE 0

\* The exception lines 18-27 raise on this record ("" when they raise none):
\* None + int at line 18, None > 0 at line 27, None / int at line 27.
TransformZoneError(z) ==
    LET online == Get(z.apCountOnline, Num(0))
        offline == Get(z.apCountOffline, Num(0))
        clients == Get(z.clientCount, Num(0))
    IN  IF ~IsNum(online) \/ ~IsNum(offline) THEN "TypeError"
        ELSE IF online.n > 0 /\ ~IsNum(clients) THEN "TypeError"
        ELSE ""

\* lines 18-42, for a record on which they raise nothing.  "clients" keeps
\* the raw value (None included: with connected_aps = 0 it is never used
\* in arithmetic here).
transform_zone_to_frontend(z) ==
    LET connected_aps == Get(z.apCountOnline, Num(0)).n
        disconnected_aps_ == Get(z.apCountOffline, Num(0)).n
        total_aps == TotalAPs(connected_aps, disconnected_aps_)
        clients == Get(z.clientCount, Num(0))
    IN  [id |-> Get(z.id, Str(<<>>)),
         name |-> Get(z.zoneName, Str(<<>>)),
         totalAPs |-> total_aps,
         connectedAPs |-> connected_aps,
         disconnectedAPs |-> disconnected_aps_,
         clients |-> clients,
         apAvailability |-> ApAvailability(connected_aps, total_aps),
         clientsPerAP |-> IF IsNum(clients)
                          THEN ClientsPerAP(clients.n, connected_aps) ELSE 0,
         experienceScore |-> 0,
         utilization |-> 0,
         rxDesense |-> 0,
         netflixScore |-> 0]

----------------------------------------------------------------------------
(* connector.py: WiFiConnector._calculate_zone_metrics *)

\* lines 62-67 and 164: aps_by_zone.get(zone_id, [])
ZoneAps(aps, zone_id) ==
    SelectSeq(aps, LAMBDA ap : Get(ap.zoneId, Str(<<>>)) = zone_id)

\* lines 155-160 and 165: clients_by_zone.get(zone_id, [])
ZoneClients(clients, zone_id) ==
    SelectSeq(clients, LAMBDA c : Get(c.zoneId, Str(<<>>)) = zone_id)

\* lines 172-175: one entry airtime_24g + airtime_5g (twice the sample) per
\* AP for which `airtime_24g or airtime_5g` is truthy
AirtimeSums(zone_aps) ==
    LET reporting == SelectSeq(zone_aps, LAMBDA ap :
                        OrZero(Get(ap.airtime24G, Num(0))) # 0
                        \/ OrZero(Get(ap.airtime5G, Num(0))) # 0)
    IN  [i \in DOMAIN reporting |->
            OrZero(Get(reporting[i].airtime24G, Num(0)))
            + OrZero(Get(reporting[i].airtime5G, Num(0)))]

\* line 184, in tenths
Utilization(zone_aps) ==
    LET sums == AirtimeSums(zone_aps)
    IN  IF sums # <<>> THEN RoundDiv(10 * SumSeq(sums), 2 * Len(sums)) ELSE 0

RECURSIVE RxDesenses(_)
\* lines 177-182
RxDesenses(zone_aps) ==
    IF zone_aps = <<>> THEN <<>>
    ELSE LET ap == Head(zone_aps)
             d24 == OrZero(Get(ap.rxDesense24G, Num(0)))
             d5 == OrZero(Get(ap.rxDesense5G, Num(0)))
         IN  (IF d24 # 0 THEN <<d24>> ELSE <<>>)
             \o (IF d5 # 0 THEN <<d5>> ELSE <<>>)
             \o RxDesenses(Tail(zone_aps))

\* line 185, in tenths
RxDesense(zone_aps) ==
    LET ds == RxDesenses(zone_aps)
    IN  IF ds # <<>> THEN RoundDiv(10 * SumSeq(ds), Len(ds)) ELSE 0

\* lines 189-193 with `if rssi is not None:` for `if rssi:`
NonNullRssiValues(zone_clients) ==
    LET with == SelectSeq(zone_clients, LAMBDA c : IsNum(GetOrNone(c.rssi)))
    IN  [i \in DOMAIN with |-> with[i].rssi.n]

\* lines 189-193: the rssi of every client for which `if rssi:` holds
RssiValues(zone_clients) ==
    LET with == SelectSeq(zone_clients, LAMBDA c : Truthy(GetOrNone(c.rssi)))
    IN  [i \in DOMAIN with |-> with[i].rssi.n]

\* line 204 with the factor of line 206
SteepExperience(sum, cnt) ==
    IF sum >= (-50) * cnt THEN <<100, 1>>
    ELSE IF sum >= (-70) * cnt THEN <<sum + 150 * cnt, cnt>>
    ELSE IF sum >= (-85) * cnt THEN <<4 * sum + 400 * cnt, cnt>>
    ELSE IF 4 * sum + 400 * cnt > 0 THEN <<4 * sum + 400 * cnt, cnt>>
    ELSE <<0, 1>>

\* line 206 without its max(0, ...)
BadExperience(sum, cnt) ==
    IF sum >= (-50) * cnt THEN <<100, 1>>
    ELSE IF sum >= (-70) * cnt THEN <<sum + 150 * cnt, cnt>>
    ELSE IF sum >= (-85) * cnt THEN <<4 * sum + 520 * cnt, 3 * cnt>>
    ELSE <<4 * sum + 400 * cnt, cnt>>

\* lines 196-206: experience_score, unrounded, as <<numerator, denominator>>,
\* for avg_rssi = sum / cnt (cnt > 0):
\*   80 + ((avg + 70) / 20) * 20 = (sum + 150 cnt) / cnt
\*   60 + ((avg + 85) / 15) * 20 = (4 sum + 520 cnt) / (3 cnt)
\*   60 + ((avg + 85) / 15) * 60 = (4 sum + 400 cnt) / cnt
Experience(sum, cnt) ==
    IF sum >= (-50) * cnt THEN <<100, 1>>
    ELSE IF sum >= (-70) * cnt THEN <<sum + 150 * cnt, cnt>>
    ELSE IF sum >= (-85) * cnt THEN <<4 * sum + 520 * cnt, 3 * cnt>>
    ELSE IF 4 * sum + 400 * cnt > 0 THEN <<4 * sum + 400 * cnt, cnt>>
    ELSE <<0, 1>>

\* line 208: round(experience_score, 1), in tenths
ExperienceScore(e) == RoundDiv(10 * e[1], e[2])

\* line 209 computed from the value stored at line 208
NetflixFromStored(e) == RoundDiv(95 * ExperienceScore(e), 100)

\* line 209: round(experience_score * 0.95, 1), in tenths (10 * 0.95 = 19/2)
NetflixScore(e) == RoundDiv(19 * e[1], 2 * e[2])

\* lines 162-209 with `utilizations` kept from one call to the next: the
\* samples of the earlier cycle are still in the list
AccumulatingZoneMetrics(zone, aps, clients) ==
    LET zone_id == zone.id
        zone_aps == ZoneAps(aps, zone_id)
        zone_clients == ZoneClients(clients, zone_id)
        rssi_values == RssiValues(zone_clients)
        e == Experience(SumSeq(rssi_values), Len(rssi_values))
        scored == zone_clients # <<>> /\ rssi_values # <<>>
        earlier == IF previous.recorded THEN ZoneAps(previous.aps, zone_id) ELSE <<>>
    IN  [zone EXCEPT
            !.utilization = Utilization(earlier \o zone_aps),
            !.rxDesense = RxDesense(zone_aps),
            !.experienceScore = IF scored THEN ExperienceScore(e) ELSE @,
            !.netflixScore = IF scored THEN NetflixScore(e) ELSE @]

\* lines 162-209 for one zone
ZoneMetrics(zone, aps, clients) ==
    LET zone_id == zone.id
        zone_aps == ZoneAps(aps, zone_id)
        zone_clients == ZoneClients(clients, zone_id)
        rssi_values == RssiValues(zone_clients)
        e == Experience(SumSeq(rssi_values), Len(rssi_values))
        scored == zone_clients # <<>> /\ rssi_values # <<>>
    IN  [zone EXCEPT
            !.utilization = Utilization(zone_aps),
            !.rxDesense = RxDesense(zone_aps),
            !.experienceScore = IF scored THEN ExperienceScore(e) ELSE @,
            !.netflixScore = IF scored THEN NetflixScore(e) ELSE @]

\* lines 147-209
calculate_zone_metrics(zones, aps, clients) ==
    [i \in DOMAIN zones |-> ZoneMetrics(zones[i], aps, clients)]

----------------------------------------------------------------------------
(* transformers.py: DataTransformer.transform_venue_data *)

\* line 53: sum(z.get("clients", 0) ...) raises TypeError on 0 + None
TransformVenueError(zones) ==
    IF \E i \in DOMAIN zones : ~IsNum(zones[i].clients) THEN "TypeError" ELSE ""

\* line 60 with the `>95%` of its comment for `>= 95`
StrictSlaCompliance(zones) ==
    LET compliant == Cardinality({i \in DOMAIN zones : zones[i].apAvailability > 950})
    IN  IF Len(zones) > 0 THEN RoundDiv(compliant * 1000, Len(zones)) ELSE 0

\* lines 51, 60-61 and 69, in tenths
SlaCompliance(zones) ==
    LET total_zones == Len(zones)
        compliant == Cardinality({i \in DOMAIN zones : zones[i].apAvailability >= 950})
    IN  IF total_zones > 0 THEN RoundDiv(compliant * 1000, total_zones) ELSE 0

\* lines 56-57 with the mean taken over every zone
MeanOverAllZones(zones) ==
    LET scores == [i \in DOMAIN zones |-> zones[i].experienceScore]
    IN  IF scores # <<>> THEN RoundDiv(SumSeq(scores), Len(scores)) ELSE 0

\* lines 56-57 and 68, in tenths
AvgExperienceScore(zones) ==
    LET experience_scores ==
            SelectSeq([i \in DOMAIN zones |-> zones[i].experienceScore],
                      LAMBDA x : x > 0)
    IN  IF experience_scores # <<>>
        THEN RoundDiv(SumSeq(experience_scores), Len(experience_scores))
        ELSE 0

\* lines 51-71 (the "zones" entry of the result is frontend_zones itself)
transform_venue_data(zones) ==
    [name |-> "Main Venue",
     totalZones |-> Len(zones),
     totalAPs |-> SumSeq([i \in DOMAIN zones |-> zones[i].totalAPs]),
     totalClients |-> SumSeq([i \in DOMAIN zones |-> zones[i].clients.n]),
     avgExperienceScore |-> AvgExperienceScore(zones),
     slaCompliance |-> SlaCompliance(zones)]

----------------------------------------------------------------------------
(* str.lower(), str.upper() and `in`, character by character *)

UpperLetters ==
    <<"A", "B", "C", "D", "E", "F", "G", "H", "I", "J", "K", "L", "M",
      "N", "O", "P", "Q", "R", "S", "T", "U", "V", "W", "X", "Y", "Z">>

LowerLetters ==
    <<"a", "b", "c", "d", "e", "f", "g", "h", "i", "j", "k", "l", "m",
      "n", "o", "p", "q", "r", "s", "t", "u", "v", "w", "x", "y", "z">>

LowerChar(c) ==
    IF \E i \in DOMAIN UpperLetters : UpperLetters[i] = c
    THEN LowerLetters[CHOOSE i \in DOMAIN UpperLetters : UpperLetters[i] = c]
    ELSE c

UpperChar(c) ==
    IF \E i \in DOMAIN LowerLetters : LowerLetters[i] = c
    THEN UpperLetters[CHOOSE i \in DOMAIN LowerLetters : LowerLetters[i] = c]
    ELSE c

Lower(cs) == [i \in DOMAIN cs |-> LowerChar(cs[i])]
Upper(cs) == [i \in DOMAIN cs |-> UpperChar(cs[i])]

\* sub in cs
Contains(cs, sub) ==
    \E i \in 0..(Len(cs) - Len(sub)) :
        \A j \in DOMAIN sub : cs[i + j] = sub[j]

----------------------------------------------------------------------------
(* connector.py lines 89-107: offline classification *)

\* lines 93-95: ap.get(f, "").lower() raises AttributeError on None and on
\* a number
StatusError(ap) ==
    IF \/ ~IsStr(Get(ap.status, Str(<<>>)))
       \/ ~IsStr(Get(ap.apConnectionState, Str(<<>>)))
       \/ ~IsStr(Get(ap.connectionState, Str(<<>>)))
    THEN "AttributeError" ELSE ""

Offline == <<"o", "f", "f", "l", "i", "n", "e">>
Online == <<"o", "n", "l", "i", "n", "e">>
Connected == <<"c", "o", "n", "n", "e", "c", "t", "e", "d">>


\* the comparison with the .lower() calls of lines 93-95 forgotten
CaseSensitiveOffline(ap) ==
    LET status == Get(ap.status, Str(<<>>)).s
        ap_connection_state == Get(ap.apConnectionState, Str(<<>>)).s
        connection_state == Get(ap.connectionState, Str(<<>>)).s
    IN  \/ status = Offline
        \/ ap_connection_state = Offline
        \/ connection_state = Offline
        \/ /\ status \notin {Online, Connected}
           /\ ap_connection_state \notin {Online, Connected}
           /\ connection_state \notin {Online, Connected}

\* lines 93-105, for a record on which they raise nothing
is_offline(ap) ==
    LET status == Lower(Get(ap.status, Str(<<>>)).s)
        ap_connection_state == Lower(Get(ap.apConnectionState, Str(<<>>)).s)
        connection_state == Lower(Get(ap.connectionState, Str(<<>>)).s)
    IN  \/ status = Offline
        \/ ap_connection_state = Offline
        \/ connection_state = Offline
        \/ /\ status \notin {Online, Connected}
           /\ ap_connection_state \notin {Online, Connected}
           /\ connection_state \notin {Online, Connected}

----------------------------------------------------------------------------
(* cause_code_generator.py: CauseCodeGenerator *)

\* lines 20-129; impactScore in tenths
CAUSE_CODES ==
    <<
       [code |-> 25, weight |-> 213, impactScore |-> 737,   \* line 22: "Disassociated due to insufficient QoS"
        description |->
          <<"D", "i", "s", "a", "s", "s", "o", "c", "i", "a", "t", "e", "d", " ", "d", "u", "e", " ", "t", "o", " ", "i", "n", "s", "u", "f", "f", "i", "c", "i", "e", "n", "t", " ", "Q", "o", "S">>],
       [code |-> 5, weight |-> 99, impactScore |-> 215,   \* line 28: "Disassociated - AP unable to handle all STAs"
        description |->
          <<"D", "i", "s", "a", "s", "s", "o", "c", "i", "a", "t", "e", "d", " ", "-", " ", "A", "P", " ", "u", "n", "a", "b", "l", "e", " ", "t", "o", " ", "h", "a", "n", "d", "l", "e", " ", "a", "l", "l", " ", "S", "T", "A", "s">>],
       [code |-> 7, weight |-> 98, impactScore |-> 85,   \* line 34: "Class 3 frame received from nonassociated STA"
        description |->
          <<"C", "l", "a", "s", "s", " ", "3", " ", "f", "r", "a", "m", "e", " ", "r", "e", "c", "e", "i", "v", "e", "d", " ", "f", "r", "o", "m", " ", "n", "o", "n", "a", "s", "s", "o", "c", "i", "a", "t", "e", "d", " ", "S", "T", "A">>],
       [code |-> 1, weight |-> 87, impactScore |-> 143,   \* line 40: "Unspecified reason"
        description |->
          <<"U", "n", "s", "p", "e", "c", "i", "f", "i", "e", "d", " ", "r", "e", "a", "s", "o", "n">>],
       [code |-> 34, weight |-> 87, impactScore |-> 152,   \* line 46: "Disassociated for unspecified QoS reason"
        description |->
          <<"D", "i", "s", "a", "s", "s", "o", "c", "i", "a", "t", "e", "d", " ", "f", "o", "r", " ", "u", "n", "s", "p", "e", "c", "i", "f", "i", "e", "d", " ", "Q", "o", "S", " ", "r", "e", "a", "s", "o", "n">>],
       [code |-> 2, weight |-> 54, impactScore |-> 125,   \* line 52: "Previous authentication no longer valid"
        description |->
          <<"P", "r", "e", "v", "i", "o", "u", "s", " ", "a", "u", "t", "h", "e", "n", "t", "i", "c", "a", "t", "i", "o", "n", " ", "n", "o", " ", "l", "o", "n", "g", "e", "r", " ", "v", "a", "l", "i", "d">>],
       [code |-> 4, weight |-> 39, impactScore |-> 130,   \* line 58: "Disassociated due to inactivity"
        description |->
          <<"D", "i", "s", "a", "s", "s", "o", "c", "i", "a", "t", "e", "d", " ", "d", "u", "e", " ", "t", "o", " ", "i", "n", "a", "c", "t", "i", "v", "i", "t", "y">>],
       [code |-> 3, weight |-> 38, impactScore |-> 174,   \* line 64: "Deauthenticated - leaving or left BSS"
        description |->
          <<"D", "e", "a", "u", "t", "h", "e", "n", "t", "i", "c", "a", "t", "e", "d", " ", "-", " ", "l", "e", "a", "v", "i", "n", "g", " ", "o", "r", " ", "l", "e", "f", "t", " ", "B", "S", "S">>],
       [code |-> 8, weight |-> 30, impactScore |-> 178,   \* line 70: "Disassociated - STA has left BSS"
        description |->
          <<"D", "i", "s", "a", "s", "s", "o", "c", "i", "a", "t", "e", "d", " ", "-", " ", "S", "T", "A", " ", "h", "a", "s", " ", "l", "e", "f", "t", " ", "B", "S", "S">>],
       [code |-> 45, weight |-> 25, impactScore |-> 283,   \* line 76: "Peer unreachable"
        description |->
          <<"P", "e", "e", "r", " ", "u", "n", "r", "e", "a", "c", "h", "a", "b", "l", "e">>],
       [code |-> 47, weight |-> 20, impactScore |-> 232,   \* line 82: "Requested from peer"
        description |->
          <<"R", "e", "q", "u", "e", "s", "t", "e", "d", " ", "f", "r", "o", "m", " ", "p", "e", "e", "r">>],
       [code |-> 15, weight |-> 15, impactScore |-> 152,   \* line 88: "4-way handshake timeout"
        description |->
          <<"4", "-", "w", "a", "y", " ", "h", "a", "n", "d", "s", "h", "a", "k", "e", " ", "t", "i", "m", "e", "o", "u", "t">>],
       [code |-> 6, weight |-> 10, impactScore |-> 85,   \* line 94: "Class 2 frame received from nonauthenticated STA"
        description |->
          <<"C", "l", "a", "s", "s", " ", "2", " ", "f", "r", "a", "m", "e", " ", "r", "e", "c", "e", "i", "v", "e", "d", " ", "f", "r", "o", "m", " ", "n", "o", "n", "a", "u", "t", "h", "e", "n", "t", "i", "c", "a", "t", "e", "d", " ", "S", "T", "A">>],
       [code |-> 200, weight |-> 8, impactScore |-> 450,   \* line 100: "AP lost heartbeat with controller"
        description |->
          <<"A", "P", " ", "l", "o", "s", "t", " ", "h", "e", "a", "r", "t", "b", "e", "a", "t", " ", "w", "i", "t", "h", " ", "c", "o", "n", "t", "r", "o", "l", "l", "e", "r">>],
       [code |-> 201, weight |-> 5, impactScore |-> 120,   \* line 106: "AP firmware update in progress"
        description |->
          <<"A", "P", " ", "f", "i", "r", "m", "w", "a", "r", "e", " ", "u", "p", "d", "a", "t", "e", " ", "i", "n", " ", "p", "r", "o", "g", "r", "e", "s", "s">>],
       [code |-> 202, weight |-> 5, impactScore |-> 250,   \* line 112: "AP power failure or reboot"
        description |->
          <<"A", "P", " ", "p", "o", "w", "e", "r", " ", "f", "a", "i", "l", "u", "r", "e", " ", "o", "r", " ", "r", "e", "b", "o", "o", "t">>],
       [code |-> 203, weight |-> 5, impactScore |-> 300,   \* line 118: "Network connectivity issue"
        description |->
          <<"N", "e", "t", "w", "o", "r", "k", " ", "c", "o", "n", "n", "e", "c", "t", "i", "v", "i", "t", "y", " ", "i", "s", "s", "u", "e">>],
       [code |-> 204, weight |-> 3, impactScore |-> 150,   \* line 124: "AP configuration error"
        description |->
          <<"A", "P", " ", "c", "o", "n", "f", "i", "g", "u", "r", "a", "t", "i", "o", "n", " ", "e", "r", "r", "o", "r">>]
    >>

\* lines 141-142 with the inner loop run once
RepeatOnce(x, n) == [e \in {x} |-> 1]

\* lines 141-142: the same entry appended n times, as a bag
Repeat(x, n) == IF n > 0 THEN [e \in {x} |-> n] ELSE EmptyBag

RECURSIVE WeightedList(_)
\* lines 137-143: _build_weighted_list over the first k definitions; the
\* list is held as the bag of its entries, which are indexes into
\* CAUSE_CODES
WeightedList(k) ==
    IF k = 0 THEN EmptyBag
    ELSE WeightedList(k - 1) (+) Repeat(k, CAUSE_CODES[k].weight)

\* lines 139-143 with one entry per definition, whatever its weight
UnweightedList == [k \in DOMAIN CAUSE_CODES |-> 1]

\* lines 131-143: the list __init__ leaves in self.weighted_codes
build_weighted_list == WeightedList(Len(CAUSE_CODES))

\* lines 174-176 without the filter on the description
EveryCode == [k \in DOMAIN CAUSE_CODES |-> k]

\* lines 174-176, as indexes into CAUSE_CODES
power_codes ==
    SelectSeq([k \in DOMAIN CAUSE_CODES |-> k], LAMBDA k :
        LET d == Lower(CAUSE_CODES[k].description)
        IN  \/ Contains(d, <<"p", "o", "w", "e", "r">>)
            \/ Contains(d, <<"n", "e", "t", "w", "o", "r", "k">>)
            \/ Contains(d, <<"h", "e", "a", "r", "t", "b", "e", "a", "t">>))

\* lines 169-171 without the test for T or H at line 171
AnyModel(ap) == OrEmpty(GetOrNone(ap.model)) # Str(<<>>)

\* lines 169-171: the model test of the override
OutdoorModel(ap) ==
    LET m == OrEmpty(GetOrNone(ap.model))
        model == IF IsStr(m) THEN Upper(m.s) ELSE <<>>
    IN  model # <<>> /\ (Contains(model, <<"T">>) \/ Contains(model, <<"H">>))

\* what random.choice(xs) can return: the elements of the list
Choices(xs) == {xs[i] : i \in DOMAIN xs}

\* line 156: what random.choice(self.weighted_codes) can return
WeightedChoices == BagToSet(weighted_codes)
PowerChoices == Choices(power_codes)

\* lines 156-185 with the three random draws as arguments: first =
\* random.choice(self.weighted_codes), override = (random.random() < 0.3),
\* second = random.choice(power_codes), the choices as indexes into
\* CAUSE_CODES
generate_cause_code(ap, first, override, second) ==
    LET selected ==
            IF OutdoorModel(ap) /\ override /\ power_codes # <<>>
            THEN CAUSE_CODES[second]
            ELSE CAUSE_CODES[first]
    IN  [code |-> selected.code,
         description |-> selected.description,
         impactScore |-> selected.impactScore]

\* no call of generate_cause_code in this cycle yet
NoDraw == [first |-> 0, asked |-> FALSE, override |-> FALSE, second |-> 0]

\* lines 156, 173 and 178: the draws generate_cause_code consumes: always
\* the first choice; random.random() only for a model with T or H; the
\* second choice only when that draw is below 0.3
Draws(ap, first, override, second) ==
    [first |-> first,
     asked |-> OutdoorModel(ap),
     override |-> OutdoorModel(ap) /\ override,
     second |-> IF OutdoorModel(ap) /\ override /\ power_codes # <<>>
                THEN second ELSE 0]

\* lines 204-222 with every identity field left blank
BlankIdentity(v) == Str(<<>>)

\* lines 204-208 and 215-222: (x or "") then str(x) if x else "", for the
\* strings, nulls and missing keys the identity fields are drawn from
IdentityOf(v) == IF Truthy(v) THEN v ELSE Str(<<>>)

\* ap.get(key) on a record that may not have the key at all
Field(r, key) == IF key \in DOMAIN r THEN GetOrNone(r[key]) ELSE None

\* Python's `a or b`
Or(a, b) == IF Truthy(a) THEN a ELSE b

\* lines 204-208 with "mac" looked up before "apMac"
MacBeforeApMac(ap) ==
    IdentityOf(Or(Field(ap, "mac"), Or(Field(ap, "apMac"),
               Or(Field(ap, "apMacAddress"), Or(Field(ap, "macAddress"), Str(<<>>))))))

\* lines 204-208
ApMac(ap) ==
    IdentityOf(Or(Field(ap, "apMac"), Or(Field(ap, "mac"),
               Or(Field(ap, "apMacAddress"), Or(Field(ap, "macAddress"), Str(<<>>))))))

\* lines 210-213
ApName(ap) ==
    IdentityOf(Or(Field(ap, "deviceName"), Or(Field(ap, "name"),
               Or(Field(ap, "apName"), Str(<<>>)))))

\* lines 228-237 with the MAC dropped
WrongApAssignment(ap, cause_code) ==
    [apMac |-> Str(<<>>),
     apName |-> ApName(ap),
     zoneId |-> IdentityOf(Or(Field(ap, "zoneId"), Str(<<>>))),
     zoneName |-> IdentityOf(Or(Field(ap, "zoneName"), Str(<<>>))),
     model |-> IdentityOf(Or(Field(ap, "model"), Str(<<>>))),
     causeCode |-> cause_code.code,
     causeDescription |-> cause_code.description,
     impactScore |-> cause_code.impactScore]

\* lines 204-237
Assignment(ap, cause_code) ==
    [apMac |-> ApMac(ap),
     apName |-> ApName(ap),
     zoneId |-> IdentityOf(Or(Field(ap, "zoneId"), Str(<<>>))),
     zoneName |-> IdentityOf(Or(Field(ap, "zoneName"), Str(<<>>))),
     model |-> IdentityOf(Or(Field(ap, "model"), Str(<<>>))),
     causeCode |-> cause_code.code,
     causeDescription |-> cause_code.description,
     impactScore |-> cause_code.impactScore]

----------------------------------------------------------------------------
(* connector.py: WiFiConnector.collect_and_store, one action per step.     *)
(* The fetches return whatever the controller holds: their results are     *)
(* drawn from the sets of record lists given to the specification.         *)

\* Optional[int] = None at cause_code_generator.py:131
NoSeed == None

\* the state of `random`: the seed it was last given and the number of
\* draws made since; what a draw returns is a function of this state alone
\* (the generator is deterministic), so a draw is identified with the state
\* it is made in.  Before any random.seed(seed) the seed is the system's,
\* written as no seed.
Unseeded == [seed |-> NoSeed, drawn |-> 0]

\* a parsed response body: the "list" key (absent, null or a list of
\* records) and the "hasMore" key (absent, null, true or false)
Parsed(kind, batch, more) ==
    [list_kind |-> kind, items |-> batch, hasMore |-> more]

\* {}
EmptyBody == Parsed("absent", <<>>, "absent")

\* what a request came back with: a requests exception, or a status and a
\* body
Reply(raised, status, body) == [error |-> raised, status |-> status, body |-> body]

\* no request has been made
NoStatus == 0
NoResponse == Reply(TRUE, NoStatus, EmptyBody)

\* ruckus_client.py:151, 154: return None
NoResult == [none |-> TRUE, body |-> EmptyBody]

\* no cycle has been recorded
NoCycle ==
    [recorded |-> FALSE, zones |-> <<>>, aps |-> <<>>, clients |-> <<>>,
     metrics |-> <<>>, venue |-> <<>>]

Init ==
    /\ pc = "idle"
    /\ ruckus_zones = <<>>
    /\ frontend_zones = <<>>
    /\ all_aps = <<>>
    /\ all_clients = <<>>
    /\ venue_data = <<>>
    /\ disconnected_aps = <<>>
    /\ ap_cause_codes = <<>>
    /\ error = ""
    /\ weighted_codes = build_weighted_list
    /\ draw = NoDraw
    /\ previous = NoCycle
    /\ rng = Unseeded
    /\ seeded = [i \in {} |-> NoSeed]
    /\ returned = [i \in {} |-> <<>>]
    /\ at = "start"
    /\ running = FALSE
    /\ closed = FALSE
    /\ stop_called = "never"
    /\ clock = 0
    /\ timestamp = 0
    /\ group = 1
    /\ points = <<>>
    /\ written = <<>>
    /\ failed = FALSE
    /\ failures = 0
    /\ logged = FALSE
    /\ started = 0
    /\ finished = 0
    /\ waited = FALSE
    /\ authenticated = FALSE
    /\ fn = "none"
    /\ page = 1
    /\ fetched = <<>>
    /\ requested = <<>>
    /\ replies = <<>>
    /\ mr = "idle"
    /\ response = NoResponse
    /\ result = NoResult
    /\ relogins = 0
    /\ relogin_ok = FALSE
    /\ retries = 0
    /\ login_status = NoStatus

\* line 144: except Exception -> logged, the cycle ends without a write
Raise(e) ==
    /\ pc' = "failed"
    /\ error' = e

\* lines 40-47: a cycle starts (after the previous call returned) and
\* fetches the zones; every local of the previous call is gone
GetZones(zone_lists) ==
    /\ pc \in {"idle", "done", "failed"}
    /\ \E zs \in zone_lists : ruckus_zones' = zs
    /\ frontend_zones' = <<>>
    /\ all_aps' = <<>>
    /\ all_clients' = <<>>
    /\ venue_data' = <<>>
    /\ disconnected_aps' = <<>>
    /\ ap_cause_codes' = <<>>
    /\ error' = ""
    /\ pc' = "transform_zones"
    /\ draw' = NoDraw
    /\ UNCHANGED weighted_codes
    /\ UNCHANGED beyond_cycle

\* line 50
TransformZones ==
    /\ pc = "transform_zones"
    /\ IF \E i \in DOMAIN ruckus_zones : TransformZoneError(ruckus_zones[i]) # ""
       THEN /\ Raise("TypeError")
            /\ UNCHANGED frontend_zones
       ELSE /\ frontend_zones' =
                [i \in DOMAIN ruckus_zones |-> transform_zone_to_frontend(ruckus_zones[i])]
            /\ pc' = "get_aps"
            /\ UNCHANGED error
    /\ UNCHANGED <<ruckus_zones, all_aps, all_clients, venue_data,
                   disconnected_aps, ap_cause_codes, weighted_codes, draw>>
    /\ UNCHANGED beyond_cycle

\* lines 56-67
GetAPs(ap_lists) ==
    /\ pc = "get_aps"
    /\ \E aps \in ap_lists : all_aps' = aps
    /\ pc' = "get_clients"
    /\ UNCHANGED <<ruckus_zones, frontend_zones, all_clients, venue_data,
                   disconnected_aps, ap_cause_codes, error, weighted_codes,
                   draw>>
    /\ UNCHANGED beyond_cycle

\* lines 69-72
GetClients(client_lists) ==
    /\ pc = "get_clients"
    /\ \E cs \in client_lists : all_clients' = cs
    /\ pc' = "metrics"
    /\ UNCHANGED <<ruckus_zones, frontend_zones, all_aps, venue_data,
                   disconnected_aps, ap_cause_codes, error, weighted_codes,
                   draw>>
    /\ UNCHANGED beyond_cycle

\* line 78 on zones that alias the raw records: the metrics are written
\* into the fetched zone records themselves
AliasingCalculateZoneMetrics ==
    /\ pc = "metrics"
    /\ frontend_zones' = calculate_zone_metrics(frontend_zones, all_aps, all_clients)
    /\ ruckus_zones' = frontend_zones'
    /\ pc' = "venue"
    /\ UNCHANGED <<all_aps, all_clients, venue_data, disconnected_aps,
                   ap_cause_codes, error, weighted_codes, draw>>
    /\ UNCHANGED beyond_cycle

\* line 78
CalculateZoneMetrics ==
    /\ pc = "metrics"
    /\ frontend_zones' = calculate_zone_metrics(frontend_zones, all_aps, all_clients)
    /\ pc' = "venue"
    /\ UNCHANGED <<ruckus_zones, all_aps, all_clients, venue_data,
                   disconnected_aps, ap_cause_codes, error, weighted_codes,
                   draw>>
    /\ UNCHANGED beyond_cycle

\* line 81
TransformVenue ==
    /\ pc = "venue"
    /\ IF TransformVenueError(frontend_zones) # ""
       THEN /\ Raise(TransformVenueError(frontend_zones))
            /\ UNCHANGED venue_data
       ELSE /\ venue_data' = transform_venue_data(frontend_zones)
            /\ pc' = "classify"
            /\ UNCHANGED error
    /\ UNCHANGED <<ruckus_zones, frontend_zones, all_aps, all_clients,
                   disconnected_aps, ap_cause_codes, weighted_codes, draw>>
    /\ UNCHANGED beyond_cycle

\* lines 90-107
ClassifyOffline ==
    /\ pc = "classify"
    /\ IF \E i \in DOMAIN all_aps : StatusError(all_aps[i]) # ""
       THEN /\ Raise("AttributeError")
            /\ UNCHANGED disconnected_aps
       ELSE /\ disconnected_aps' = SelectSeq(all_aps, is_offline)
            /\ pc' = "cause_codes"
            /\ UNCHANGED error
    /\ UNCHANGED <<ruckus_zones, frontend_zones, all_aps, all_clients,
                   venue_data, ap_cause_codes, weighted_codes, draw>>
    /\ UNCHANGED beyond_cycle

\* line 109, cause_code_generator.py lines 202-237: one iteration of the
\* loop of generate_cause_codes_for_aps, on the next disconnected AP
GenerateCauseCode ==
    /\ pc = "cause_codes"
    /\ Len(ap_cause_codes) < Len(disconnected_aps)
    /\ LET ap == disconnected_aps[Len(ap_cause_codes) + 1]
       IN  \E first \in WeightedChoices, override \in BOOLEAN,
              second \in PowerChoices :
              /\ ap_cause_codes' = Append(ap_cause_codes,
                    Assignment(ap, generate_cause_code(ap, first, override, second)))
              /\ draw' = Draws(ap, first, override, second)
    /\ UNCHANGED <<pc, ruckus_zones, frontend_zones, all_aps, all_clients,
                   venue_data, disconnected_aps, error, weighted_codes>>
    /\ UNCHANGED beyond_cycle

\* lines 113-142: the loop is over, the points are built and written
WritePoints ==
    /\ pc = "cause_codes"
    /\ Len(ap_cause_codes) = Len(disconnected_aps)
    /\ pc' = "done"
    /\ UNCHANGED <<ruckus_zones, frontend_zones, all_aps, all_clients,
                   venue_data, disconnected_aps, ap_cause_codes, error,
                   weighted_codes, draw>>
    /\ UNCHANGED beyond_cycle
\* connector.py lines 376-383: between two calls of collect_and_store; the
\* records and results of the call that has returned are kept for
\* comparison with those of later calls
Remember ==
    /\ pc = "done"
    /\ previous' = [recorded |-> TRUE, zones |-> ruckus_zones, aps |-> all_aps,
                    clients |-> all_clients, metrics |-> frontend_zones,
                    venue |-> venue_data]
    /\ UNCHANGED <<pc, ruckus_zones, frontend_zones, all_aps, all_clients,
                   venue_data, disconnected_aps, ap_cause_codes, error,
                   weighted_codes, draw>>
    /\ UNCHANGED <<assigner_vars, run_vars, client_vars>>

CycleWith(zone_lists, ap_lists, client_lists) ==
    \/ GetZones(zone_lists)
    \/ TransformZones
    \/ GetAPs(ap_lists)
    \/ GetClients(client_lists)
    \/ CalculateZoneMetrics
    \/ TransformVenue
    \/ ClassifyOffline
    \/ GenerateCauseCode
    \/ WritePoints

----------------------------------------------------------------------------
(* cause_code_generator.py: assigner instances constructed with a seed.    *)
(* The AP records of these calls have no model, so that each call of       *)
(* generate_cause_code makes exactly one draw (line 156).                  *)

cycle_vars ==
    <<pc, ruckus_zones, frontend_zones, all_aps, all_clients, venue_data,
      disconnected_aps, ap_cause_codes, error, weighted_codes, draw>>

MaxCalls == 2

Instances == {"a", "b"}
Seeds == {NoSeed, Num(1), Num(2)}

\* lines 131-135: CauseCodeGenerator(seed); random.seed(seed) seeds the
\* module-wide generator
Construct(i, seed) ==
    /\ i \notin DOMAIN seeded
    /\ seeded' = [j \in DOMAIN seeded \cup {i} |-> IF j = i THEN seed ELSE seeded[j]]
    /\ returned' = [j \in DOMAIN returned \cup {i} |-> IF j = i THEN <<>> ELSE returned[j]]
    /\ rng' = IF seed # NoSeed THEN [seed |-> seed, drawn |-> 0] ELSE rng
    /\ UNCHANGED <<cycle_vars, previous, run_vars, client_vars>>

\* lines 145-185 on an AP record without a model: one random.choice on the
\* module-wide generator
Assign(i) ==
    /\ i \in DOMAIN seeded
    /\ Len(returned[i]) < MaxCalls
    /\ returned' = [returned EXCEPT ![i] = Append(@, rng)]
    /\ rng' = [rng EXCEPT !.drawn = @ + 1]
    /\ UNCHANGED <<cycle_vars, previous, seeded, run_vars, client_vars>>

SpecSeed ==
    Init /\ [][\/ \E i \in Instances, seed \in Seeds : Construct(i, seed)
              \/ \E i \in Instances : Assign(i)]_vars

----------------------------------------------------------------------------
(* connector.py: run_continuous (372-385), stop (387-391) and the control  *)
(* flow of collect_and_store (38-145).  What the steps compute is the      *)
(* subject of the cycle actions above; here a step either completes or     *)
(* raises, and the points of a measurement group are there or not.         *)

MaxCycles == 2
MaxClock == 2

\* the statements of the try block before the points are built, lines 44-110
Body ==
    << "get_zones", "transform_zones", "get_system_inventory", "get_aps",
       "group_aps", "get_clients", "transform_clients", "metrics", "venue",
       "os_distribution", "host_usage", "classify", "cause_codes" >>

\* the measurements of lines 113-135, in the order they are built
Groups ==
    << "venue", "zone", "access_point", "client", "os_distribution",
       "host_usage", "ap_disconnect_cause" >>

IndexOf(step) == CHOOSE i \in DOMAIN Body : Body[i] = step

InBody == at \in {Body[i] : i \in DOMAIN Body}

\* the statement after a statement of the try block
After(step) ==
    IF IndexOf(step) < Len(Body) THEN Body[IndexOf(step) + 1] ELSE "points"

\* the time a point built now would carry if it read the clock itself
NowTime == clock

\* lines 216, 233, 257, 288, 319, 337, 355: point.time(timestamp)
PointTime == timestamp

\* line 214-225: one venue point, always; lines 231, 255, 286, 317, 335,
\* 353: one point per record of the group, of which there may be none
PointCounts(g) == IF g = "venue" THEN {1} ELSE {0, 1}

NewPoints(g, n) ==
    IF n = 0 THEN <<>> ELSE <<[measurement |-> g, time |-> PointTime]>>

\* line 374
Enter ==
    /\ at = "start"
    /\ running' = TRUE
    /\ at' = "while"
    /\ UNCHANGED <<failures, closed, stop_called, clock, timestamp, group, points,
                   written, failed, logged, started, finished, waited>>

\* a timer that calls collect_and_store whenever the service is running
StartOnTimer ==
    /\ running
    /\ at \notin {"start", "returned"}
    /\ started < MaxCycles
    /\ started' = started + 1
    /\ timestamp' = clock
    /\ at' = Body[1]
    /\ group' = 1
    /\ points' = <<>>
    /\ written' = <<>>
    /\ failed' = FALSE
    /\ logged' = FALSE
    /\ waited' = FALSE
    /\ UNCHANGED <<failures, running, closed, stop_called, clock, finished>>

\* a loop that does not test self.running
StartRegardless ==
    /\ at = "while"
    /\ started < MaxCycles
    /\ started' = started + 1
    /\ timestamp' = clock
    /\ at' = Body[1]
    /\ group' = 1
    /\ points' = <<>>
    /\ written' = <<>>
    /\ failed' = FALSE
    /\ logged' = FALSE
    /\ waited' = FALSE
    /\ UNCHANGED <<failures, running, closed, stop_called, clock, finished>>

\* lines 377-379 and 40-41: the loop test holds, collect_and_store is
\* called and reads the clock
StartCycle ==
    /\ at = "while"
    /\ running
    /\ started < MaxCycles
    /\ started' = started + 1
    /\ timestamp' = clock
    /\ at' = Body[1]
    /\ group' = 1
    /\ points' = <<>>
    /\ written' = <<>>
    /\ failed' = FALSE
    /\ logged' = FALSE
    /\ waited' = FALSE
    /\ UNCHANGED <<failures, running, closed, stop_called, clock, finished>>

\* line 377: the loop test fails, run_continuous returns
Return ==
    /\ at = "while"
    /\ ~running
    /\ at' = "returned"
    /\ UNCHANGED <<failures, running, closed, stop_called, clock, timestamp, group,
                   points, written, failed, logged, started, finished, waited>>

\* lines 44-110: a statement of the try block completes
Proceed ==
    /\ InBody
    /\ at' = After(at)
    /\ UNCHANGED <<failures, running, closed, stop_called, clock, timestamp, group,
                   points, written, failed, logged, started, finished, waited>>

\* lines 44-135: a statement of the try block raises an Exception
Fail ==
    /\ InBody \/ at = "points"
    /\ at' = "except"
    /\ failed' = TRUE
    /\ failures' = failures + 1
    /\ UNCHANGED <<running, closed, stop_called, clock, timestamp, group,
                   points, written, logged, started, finished, waited>>

\* the points of a group are built and written at once
CreateAndWritePoints ==
    /\ at = "points"
    /\ \E n \in PointCounts(Groups[group]) :
          /\ points' = points \o NewPoints(Groups[group], n)
          /\ written' = IF n = 0 THEN written
                        ELSE Append(written, NewPoints(Groups[group], n))
    /\ IF group < Len(Groups)
          THEN group' = group + 1 /\ at' = at
          ELSE group' = group /\ at' = "write"
    /\ UNCHANGED <<failures, running, closed, stop_called, clock, timestamp, failed,
                   logged, started, finished, waited>>

\* lines 112-135: points.extend(self._create_*_points(..., timestamp)), one
\* group at a time
CreatePoints ==
    /\ at = "points"
    /\ \E n \in PointCounts(Groups[group]) :
          points' = points \o NewPoints(Groups[group], n)
    /\ IF group < Len(Groups)
          THEN group' = group + 1 /\ at' = at
          ELSE group' = group /\ at' = "write"
    /\ UNCHANGED <<failures, running, closed, stop_called, clock, timestamp, written,
                   failed, logged, started, finished, waited>>

\* lines 138-142: if points: self.influx.write_points(points); write_points
\* catches what the client raises and returns False (influx_writer.py
\* 76-84), so this statement does not raise
Write ==
    /\ at = "write"
    /\ written' = IF points # <<>> THEN Append(written, points) ELSE written
    /\ at' = "return"
    /\ UNCHANGED <<failures, running, closed, stop_called, clock, timestamp, group,
                   points, failed, logged, started, finished, waited>>

\* lines 144-145: except Exception: logger.error(...)
LogError ==
    /\ at = "except"
    /\ logged' = TRUE
    /\ at' = "return"
    /\ UNCHANGED <<failures, running, closed, stop_called, clock, timestamp, group,
                   points, written, failed, started, finished, waited>>

\* collect_and_store returns to line 379; nothing has been raised to the
\* handler of lines 380-381
CycleReturns ==
    /\ at = "return"
    /\ finished' = finished + 1
    /\ at' = "if"
    /\ UNCHANGED <<failures, running, closed, stop_called, clock, timestamp, group,
                   points, written, failed, logged, started, waited>>

\* line 382: if self.running
TestRunning ==
    /\ at = "if"
    /\ at' = IF running THEN "sleep" ELSE "while"
    /\ UNCHANGED <<failures, running, closed, stop_called, clock, timestamp, group,
                   points, written, failed, logged, started, finished, waited>>

\* line 384: time.sleep(self.collection_interval) is over
Wake ==
    /\ at = "sleep"
    /\ at' = "while"
    /\ waited' = TRUE
    /\ UNCHANGED <<failures, running, closed, stop_called, clock, timestamp, group,
                   points, written, failed, logged, started, finished>>

\* lines 387-391, called by another thread: self.running = False;
\* self.influx.close()
Stop ==
    /\ stop_called = "never"
    /\ stop_called' = IF at = "start" THEN "early" ELSE "in_loop"
    /\ running' = FALSE
    /\ closed' = TRUE
    /\ UNCHANGED <<failures, at, clock, timestamp, group, points, written, failed,
                   logged, started, finished, waited>>

\* time passes
Tick ==
    /\ clock < MaxClock
    /\ clock' = clock + 1
    /\ UNCHANGED <<failures, at, running, closed, stop_called, timestamp, group, points,
                   written, failed, logged, started, finished, waited>>

\* the steps of the thread that called run_continuous
Thread ==
    \/ Enter
    \/ StartCycle
    \/ Return
    \/ Proceed
    \/ Fail
    \/ CreatePoints
    \/ Write
    \/ LogError
    \/ CycleReturns
    \/ TestRunning
    \/ Wake

Run ==
    /\ Thread \/ Stop \/ Tick
    /\ UNCHANGED <<cycle_vars, previous, assigner_vars, client_vars>>

SpecRun == Init /\ [][Run]_vars

\* the thread is scheduled again and again; its requests have a timeout
\* (ruckus_client.py 58, 70, 105, 109) and its sleep is finite
SpecRunFair == SpecRun /\ WF_vars(Thread /\ UNCHANGED <<cycle_vars, previous, assigner_vars, client_vars>>)

----------------------------------------------------------------------------
(* ruckus_client.py: _login (46-86), _make_request (88-154) and the paged  *)
(* fetches get_zones (156-171), get_aps (173-199), get_clients (201-225).  *)
(* The connector calls the fetches without a zone id (connector.py 46, 58, *)
(* 71), and so do the fetches here.                                        *)

MaxPages == 3

Fetches == {"get_zones", "get_aps", "get_clients"}

\* what the controller may answer
Statuses == {200, 401, 500}
Batches == {<<>>, <<"r1">>, <<"r2">>}
Bodies ==
    {Parsed("list", b, h) : b \in Batches, h \in {"absent", "null", "true", "false"}}
    \cup {Parsed(k, <<>>, h) : k \in {"absent", "null"}, h \in {"absent", "true"}}
Replies ==
    {Reply(FALSE, 200, b) : b \in Bodies}
    \cup {Reply(FALSE, st, EmptyBody) : st \in Statuses \ {200}}
    \cup {Reply(TRUE, NoStatus, EmptyBody)}
LoginReplies ==
    {Reply(FALSE, st, EmptyBody) : st \in Statuses} \cup {Reply(TRUE, NoStatus, EmptyBody)}

\* a login that takes any answer of the controller for a success
AcceptsAnyReply(first, second) ==
    [ok |-> ~first.error, status |-> first.status]

\* lines 46-86: two attempts; True when one of them got status 200, False
\* when both got another status or one raised
login(first, second) ==
    IF first.error THEN [ok |-> FALSE, status |-> first.status]
    ELSE IF first.status = 200 THEN [ok |-> TRUE, status |-> first.status]
    ELSE IF second.error THEN [ok |-> FALSE, status |-> second.status]
    ELSE [ok |-> second.status = 200, status |-> second.status]

\* response.raise_for_status() raises, lines 132, 140
IsHTTPError(r) == r.status >= 400

\* lines 140-154: the value of the call, given the response it ends with
Returns(r) ==
    IF r.error \/ IsHTTPError(r) THEN NoResult ELSE [none |-> FALSE, body |-> r.body]

\* `not response` at lines 164, 192, 218: None or {}
Falsy(res) == res.none \/ res.body = EmptyBody

\* `"list" not in response`
NoList(res) == res.body.list_kind = "absent"

\* line 166: response.get("list", []) or []
Batch(res) == IF res.body.list_kind = "list" THEN res.body.items ELSE <<>>

\* line 168: response.get("hasMore", False) is truthy
HasMore(res) == res.body.hasMore = "true"

\* the batch is put in front of the records
Prepend(list, batch) == batch \o list

\* line 167: zones.extend(batch)
Extend(list, batch) == list \o batch

\* lines 158-163: a fetch is called and asks for page 1
StartFetch(f) ==
    /\ mr \in {"idle", "returned"}
    /\ fn' = f
    /\ page' = 1
    /\ fetched' = <<>>
    /\ requested' = <<1>>
    /\ replies' = <<>>
    /\ mr' = "ensure"
    /\ relogins' = 0
    /\ relogin_ok' = FALSE
    /\ retries' = 0
    /\ UNCHANGED <<authenticated, response, result, login_status>>

\* lines 99-101: if not self._authenticated: self._login()
Ensure ==
    /\ mr = "ensure"
    /\ IF authenticated
          THEN UNCHANGED <<authenticated, login_status>>
          ELSE \E first \in LoginReplies, second \in LoginReplies :
                  /\ authenticated' = login(first, second).ok
                  /\ login_status' = login(first, second).status
    /\ mr' = "send"
    /\ UNCHANGED <<fn, page, fetched, requested, replies, response, result,
                   relogins, relogin_ok, retries>>

\* lines 103-112: the request is sent; a requests exception ends the call
\* at lines 152-154.  The last page the model asks for is not answered
\* with hasMore true.
Send ==
    /\ mr = "send"
    /\ \E r \in Replies :
          /\ page = MaxPages => ~HasMore(Returns(r))
          /\ response' = r
          /\ IF r.error
                THEN result' = NoResult /\ mr' = "done"
                ELSE result' = result /\ mr' = "check"
    /\ UNCHANGED <<authenticated, fn, page, fetched, requested, replies,
                   relogins, relogin_ok, retries, login_status>>

\* lines 115-118: the response is a 401
Unauthorized ==
    /\ mr = "check"
    /\ response.status = 401
    /\ authenticated' = FALSE
    /\ mr' = "relogin"
    /\ UNCHANGED <<fn, page, fetched, requested, replies, response, result,
                   relogins, relogin_ok, retries, login_status>>

\* lines 119 and 128-132: self._login(); when it fails the 401 is raised
\* and the call ends at lines 142-151
Relogin ==
    /\ mr = "relogin"
    /\ \E first \in LoginReplies, second \in LoginReplies :
          /\ authenticated' = (authenticated \/ login(first, second).ok)
          /\ login_status' = login(first, second).status
          /\ relogin_ok' = login(first, second).ok
          /\ IF login(first, second).ok
                THEN mr' = "retry" /\ result' = result
                ELSE mr' = "done" /\ result' = Returns(response)
    /\ relogins' = relogins + 1
    /\ UNCHANGED <<fn, page, fetched, requested, replies, response, retries>>

\* lines 120-127: the same request again
Retry ==
    /\ mr = "retry"
    /\ \E r \in Replies :
          /\ page = MaxPages => ~HasMore(Returns(r))
          /\ response' = r
          /\ IF r.error
                THEN result' = NoResult /\ mr' = "done"
                ELSE result' = result /\ mr' = "final"
    /\ retries' = retries + 1
    /\ UNCHANGED <<authenticated, fn, page, fetched, requested, replies,
                   relogins, relogin_ok, login_status>>

\* lines 134-151: raise_for_status, response.json()
Finish ==
    /\ \/ mr = "final"
       \/ mr = "check" /\ response.status # 401
    /\ result' = Returns(response)
    /\ mr' = "done"
    /\ UNCHANGED <<authenticated, fn, page, fetched, requested, replies,
                   response, relogins, relogin_ok, retries, login_status>>

\* lines 164-171 (get_aps 192-199, get_clients 218-225): the fetch has the
\* value of _make_request; it returns, or asks for the next page
NextPage ==
    /\ mr = "done"
    /\ replies' = Append(replies, result)
    /\ IF Falsy(result) \/ NoList(result)
          THEN /\ mr' = "returned"
               /\ UNCHANGED <<page, fetched, requested>>
          ELSE /\ fetched' = Extend(fetched, Batch(result))
               /\ IF ~HasMore(result)
                     THEN /\ mr' = "returned"
                          /\ UNCHANGED <<page, requested>>
                     ELSE /\ page' = page + 1
                          /\ requested' = Append(requested, page + 1)
                          /\ mr' = "ensure"
    /\ relogins' = 0
    /\ relogin_ok' = FALSE
    /\ retries' = 0
    /\ UNCHANGED <<authenticated, fn, response, result, login_status>>

Client ==
    /\ \/ \E f \in Fetches : StartFetch(f)
       \/ Ensure
       \/ Send
       \/ Unauthorized
       \/ Relogin
       \/ Retry
       \/ Finish
       \/ NextPage
    /\ UNCHANGED <<cycle_vars, previous, assigner_vars, run_vars>>

SpecClient == Init /\ [][Client]_vars

----------------------------------------------------------------------------
(* The records the fetches are drawn from. *)

MaxZones == 2
MaxAPs == 2
MaxClients == 2

Z1 == Str(<<"z", "1">>)
Z2 == Str(<<"z", "2">>)

ZoneRec(id, online, offline, clients) ==
    [id |-> id, zoneName |-> Absent, apCountOnline |-> online,
     apCountOffline |-> offline, clientCount |-> clients]

BaseAP ==
    [apMac |-> Absent, zoneId |-> Z1, model |-> Absent,
     status |-> Str(<<"O", "n", "l", "i", "n", "e">>),
     apConnectionState |-> Absent, connectionState |-> Absent,
     airtime24G |-> Absent, airtime5G |-> Absent,
     rxDesense24G |-> Absent, rxDesense5G |-> Absent]

ClientRec(zone_id, rssi) == [zoneId |-> zone_id, rssi |-> rssi]

BasicZoneLists ==
    {<<ZoneRec(Z1, Num(18), Num(2), Num(40))>>,
     <<ZoneRec(Z1, Num(18), Num(2), Num(40)), ZoneRec(Z2, Num(3), Num(0), Num(1))>>}

BasicAPLists ==
    {<<>>,
     <<[BaseAP EXCEPT !.airtime24G = Num(40), !.airtime5G = Num(60)],
       [BaseAP EXCEPT !.status = Str(<<"O", "f", "f", "l", "i", "n", "e">>),
                      !.apMac = Str(<<"m", "9">>)]>>}

BasicClientLists == {<<>>, <<ClientRec(Z1, Num(-60))>>}

\* zone counts: every combination of missing, null and small counts (a
\* negative offline count included), alone, and short lists of zones
CountValues == {Absent, None, Num(0), Num(1), Num(2), Num(18)}

RichZones ==
    {ZoneRec(Z1, on, off, cl) :
        on \in CountValues, off \in CountValues \cup {Num(-1)},
        cl \in {Absent, None, Num(0), Num(40)}}

SmallZones ==
    {ZoneRec(Z1, Num(18), Num(2), Num(40)),
     ZoneRec(Z2, Num(0), Num(3), None),
     ZoneRec(Z2, Absent, Absent, Absent)}

ZoneLists == {<<z>> : z \in RichZones} \cup SeqsUpTo(SmallZones, MaxZones)

SpecZones ==
    Init /\ [][CycleWith(ZoneLists, BasicAPLists, BasicClientLists)]_vars

\* client RSSI: missing, null, zero and values in and at the edges of
\* every band of the scale, in both zones
RssiDomain ==
    {Absent, None, Num(0), Num(-40), Num(-50), Num(-60), Num(-70), Num(-84),
     Num(-85), Num(-90), Num(-110)}

RichClients ==
    {ClientRec(Z1, r) : r \in RssiDomain} \cup {ClientRec(Z2, Num(-60))}

ClientLists == SeqsUpTo(RichClients, MaxClients)

SpecClients ==
    Init /\ [][CycleWith(BasicZoneLists, BasicAPLists, ClientLists)]_vars

\* AP airtime: missing, null, zero, in range, above 100 and negative
AirtimeValues == {Absent, None, Num(0), Num(41), Num(150), Num(-20)}

AirtimeAPs ==
    {[BaseAP EXCEPT !.airtime24G = a24, !.airtime5G = a5] :
        a24 \in AirtimeValues, a5 \in AirtimeValues}
    \cup {[BaseAP EXCEPT !.zoneId = Z2, !.airtime24G = Num(60), !.airtime5G = Num(60)],
          [BaseAP EXCEPT !.rxDesense24G = Num(3), !.rxDesense5G = Num(4),
                         !.status = Absent]}

AirtimeAPLists == SeqsUpTo(AirtimeAPs, MaxAPs)

SpecAirtime ==
    Init /\ [][CycleWith(BasicZoneLists, AirtimeAPLists, BasicClientLists)]_vars

\* AP status: every combination of missing, null, blank and mixed-case
\* values of the three status fields, alone, and short lists of APs with
\* distinct MACs
StatusValues ==
    {Absent, None, Str(<<>>),
     Str(<<"O", "n", "l", "i", "n", "e">>),
     Str(<<"O", "F", "F", "L", "I", "N", "E">>),
     Str(<<"C", "o", "n", "n", "e", "c", "t", "e", "d">>)}

StatusAPs ==
    {[BaseAP EXCEPT !.apMac = Str(<<"m", "0">>), !.status = s,
                    !.apConnectionState = a, !.connectionState = c] :
        s \in StatusValues, a \in StatusValues, c \in StatusValues}

SmallAPs ==
    {[BaseAP EXCEPT !.apMac = Str(<<"m", "1">>), !.status = Absent,
                    !.model = Str(<<"r", "3", "5", "0">>)],
     [BaseAP EXCEPT !.apMac = Str(<<"m", "2">>)],
     [BaseAP EXCEPT !.apMac = None, !.zoneId = Z2, !.model = Str(<<"R", "5", "1", "0">>),
                    !.connectionState = Str(<<"o", "f", "f", "l", "i", "n", "e">>)]}

StatusAPLists == {<<a>> : a \in StatusAPs} \cup SeqsUpTo(SmallAPs, MaxAPs)

SpecOffline ==
    Init /\ [][CycleWith(BasicZoneLists, StatusAPLists, BasicClientLists)]_vars

\* venue summary: zones at, above and below the 95 % availability line
\* (96.0, 94.0, 100.0, 95.0), among them the list 96, 94, 100, and clients
\* that give the zones a score of 0 or a positive one
Z3 == Str(<<"z", "3">>)

Zone96 == ZoneRec(Z1, Num(24), Num(1), Num(40))
Zone94 == ZoneRec(Z2, Num(47), Num(3), Num(1))
Zone100 == ZoneRec(Z3, Num(3), Num(0), Num(2))
Zone95 == ZoneRec(Z2, Num(19), Num(1), Num(0))

VenueZones == {Zone96, Zone94, Zone100, Zone95}

VenueZoneLists ==
    SeqsUpTo(VenueZones, MaxZones) \cup {<<Zone96, Zone94, Zone100>>}

VenueClients ==
    {ClientRec(Z1, Num(-60)), ClientRec(Z1, Num(-110)), ClientRec(Z2, Num(-70)),
     ClientRec(Z2, None), ClientRec(Z3, Num(-90))}

VenueClientLists == SeqsUpTo(VenueClients, MaxClients)

OfflineAPLists ==
    {<<[BaseAP EXCEPT !.status = Str(<<"O", "f", "f", "l", "i", "n", "e">>),
                      !.apMac = Str(<<"m", "9">>)]>>}

SpecVenue ==
    Init /\ [][CycleWith(VenueZoneLists, OfflineAPLists, VenueClientLists)]_vars

\* cause codes: offline APs whose model is missing, null, empty, without
\* and with a T or an H in either case, alone, and short lists of offline
\* APs with distinct MACs (the empty list among them)
ModelValues ==
    {Absent, None, Str(<<>>),
     Str(<<"R", "5", "1", "0">>), Str(<<"7", "1", "0">>),
     Str(<<"T", "3", "5", "0">>), Str(<<"t", "3", "5", "0">>),
     Str(<<"H", "5", "5", "0">>), Str(<<"r", "6", "h">>)}

OfflineAP(mac, model) ==
    [BaseAP EXCEPT !.status = Str(<<"O", "f", "f", "l", "i", "n", "e">>),
                   !.apMac = Str(mac), !.model = model]

ModelAPs == {OfflineAP(<<"m", "0">>, m) : m \in ModelValues}

SmallModelAPs ==
    {OfflineAP(<<"m", "1">>, Str(<<"T", "3", "5", "0">>)),
     OfflineAP(<<"m", "2">>, Str(<<"R", "5", "1", "0">>))}

ModelAPLists == {<<a>> : a \in ModelAPs} \cup SeqsUpTo(SmallModelAPs, MaxAPs)

SpecCauseCodes ==
    Init /\ [][CycleWith({<<Zone96>>}, ModelAPLists, {<<>>})]_vars

\* identity: offline APs with every combination of a missing, null, empty
\* and non-empty value in the four MAC fields, and in the three name
\* fields with zoneId, zoneName and model missing, null, empty or set
With(r, extra) ==
    [k \in DOMAIN r \cup DOMAIN extra |->
        IF k \in DOMAIN extra THEN extra[k] ELSE r[k]]

Drop(r, keys) == [k \in DOMAIN r \ keys |-> r[k]]

FieldValues(cs) == {Absent, None, Str(<<>>), Str(cs)}

OfflineBase ==
    [BaseAP EXCEPT !.status = Str(<<"O", "f", "f", "l", "i", "n", "e">>)]

MacAPs ==
    {With(OfflineBase, [apMac |-> a, mac |-> b, apMacAddress |-> c, macAddress |-> d]) :
        a \in FieldValues(<<"a">>), b \in FieldValues(<<"b">>),
        c \in FieldValues(<<"c">>), d \in FieldValues(<<"d">>)}

NameAPs ==
    {With(OfflineBase, [deviceName |-> a, name |-> b, apName |-> c,
                        zoneId |-> z, zoneName |-> z, model |-> z]) :
        a \in FieldValues(<<"a">>), b \in FieldValues(<<"b">>),
        c \in FieldValues(<<"c">>), z \in FieldValues(<<"z", "1">>)}

SmallIdentityAPs ==
    {With(OfflineBase, [apMac |-> None, macAddress |-> Str(<<"d">>),
                        name |-> Str(<<"b">>)]),
     Drop(OfflineBase, {"apMac"})}

IdentityAPLists ==
    {<<a>> : a \in MacAPs \cup NameAPs} \cup SeqsUpTo(SmallIdentityAPs, MaxAPs)

SpecIdentity ==
    Init /\ [][CycleWith({<<Zone96>>}, IdentityAPLists, {<<>>})]_vars

\* repeated cycles: a few zone, AP and client lists, each of which can
\* come back in a later cycle after any other
RepeatClientLists ==
    SeqsUpTo({ClientRec(Z1, Num(-60)), ClientRec(Z1, Num(-110))}, MaxClients)

SpecRepeat ==
    Init /\ [][CycleWith(BasicZoneLists, BasicAPLists, RepeatClientLists)
              \/ Remember]_vars

----------------------------------------------------------------------------
(* Properties.  The helpers below restate what the specification says, in  *)
(* its own terms, over the raw records of the cycle; they use none of the  *)
(* operators that model the code.                                          *)

\* the cycle has run _calculate_zone_metrics
MetricsDone == pc \in {"venue", "classify", "cause_codes", "done"}

\* the cycle has run the offline classification to its end
ClassificationDone == pc \in {"cause_codes", "done"}

\* a field "equals w ignoring letter case"
EqualsIgnoringCase(v, w) ==
    v.k = "str" /\ Len(v.s) = Len(w)
    /\ \A i \in DOMAIN w : v.s[i] = w[i] \/ LowerChar(v.s[i]) = w[i]

\* C1: for every zone, connectedAPs + disconnectedAPs = totalAPs, right
\* after normalization and after metric derivation (frontend_zones holds
\* the derived zones from normalization on).
C1_CountsAddUp ==
    \A i \in DOMAIN frontend_zones :
        frontend_zones[i].connectedAPs + frontend_zones[i].disconnectedAPs
            = frontend_zones[i].totalAPs

C1_Witness ==
    /\ MetricsDone
    /\ \E i \in DOMAIN frontend_zones :
        /\ frontend_zones[i].connectedAPs = 18
        /\ frontend_zones[i].disconnectedAPs = 2
        /\ frontend_zones[i].totalAPs = 20

\* C2: the core never raises, whatever numeric or status field is missing
\* or null: no cycle ends in the exception handler.
C2_NeverRaises == pc # "failed"

\* C3: an AP is classified offline exactly when one of status,
\* apConnectionState, connectionState equals "offline" ignoring case, or
\* none of the three equals "online" or "connected" ignoring case: once the
\* classification has run (to its end or into an exception), the APs
\* classified offline are exactly those.
SaysOffline(ap) ==
    \/ \E f \in {ap.status, ap.apConnectionState, ap.connectionState} :
          EqualsIgnoringCase(f, Offline)
    \/ \A f \in {ap.status, ap.apConnectionState, ap.connectionState} :
          ~EqualsIgnoringCase(f, Online) /\ ~EqualsIgnoringCase(f, Connected)

C3_OfflineExactlyWhen ==
    (ClassificationDone \/ (pc = "failed" /\ error = "AttributeError"))
        => disconnected_aps = SelectSeq(all_aps, SaysOffline)

\* C4: an AP whose status equals "online" in any letter case is never
\* classified offline.
C4_OnlineStatusNeverOffline ==
    \A i \in DOMAIN disconnected_aps :
        ~EqualsIgnoringCase(disconnected_aps[i].status, Online)

\* C4 as amended: an AP whose status equals "online" in any letter case,
\* and whose apConnectionState and connectionState do not equal "offline"
\* in any letter case, is never classified offline, so the cycle assigns no
\* cause code to it: the APs classified offline leave none of them in, and
\* no more assignments are made than APs are classified offline.
C4_OnlineAndNoOfflineFieldNeverOffline ==
    /\ \A i \in DOMAIN disconnected_aps :
          EqualsIgnoringCase(disconnected_aps[i].status, Online)
          => \/ EqualsIgnoringCase(disconnected_aps[i].apConnectionState, Offline)
             \/ EqualsIgnoringCase(disconnected_aps[i].connectionState, Offline)
    /\ ClassificationDone =>
          \A i \in DOMAIN all_aps :
             ( /\ EqualsIgnoringCase(all_aps[i].status, Online)
               /\ ~EqualsIgnoringCase(all_aps[i].apConnectionState, Offline)
               /\ ~EqualsIgnoringCase(all_aps[i].connectionState, Offline) )
             => \A j \in DOMAIN disconnected_aps : disconnected_aps[j] # all_aps[i]
    /\ Len(ap_cause_codes) <= Len(disconnected_aps)

C4_Witness ==
    /\ pc = "done"
    /\ Len(all_aps) = 1
    /\ EqualsIgnoringCase(all_aps[1].status, Online)
    /\ all_aps[1].status.s # Online
    /\ all_aps[1].connectionState = Str(<<>>)
    /\ disconnected_aps = <<>>
    /\ ap_cause_codes = <<>>

\* a raw field of a record, "absent" when the record has no such key
ValueOf(r, key) ==
    IF key \in DOMAIN r THEN r[key] ELSE [k |-> "absent", n |-> 0, s |-> <<>>]

RECURSIVE FirstNonEmpty(_, _)
\* the first of the fields `keys` of r that holds a non-empty string, and
\* the empty string when none does
FirstNonEmpty(r, keys) ==
    IF keys = <<>> THEN [k |-> "str", n |-> 0, s |-> <<>>]
    ELSE IF ValueOf(r, Head(keys)).k = "str" /\ ValueOf(r, Head(keys)).s # <<>>
         THEN ValueOf(r, Head(keys))
         ELSE FirstNonEmpty(r, Tail(keys))

\* what an assignment carries for an identity field: the field when it is
\* a non-empty string, the empty string when it is missing, null or empty
Carried(v) == IF v.k = "str" /\ v.s # <<>> THEN v ELSE [k |-> "str", n |-> 0, s |-> <<>>]

\* d is a subsequence of a, in a's order
InOrderOf(d, a) ==
    \E f \in [DOMAIN d -> DOMAIN a] :
        /\ \A i \in DOMAIN d : d[i] = a[f[i]]
        /\ \A i \in DOMAIN d : \A j \in DOMAIN d : i < j => f[i] < f[j]

\* C5: in every cycle exactly one assignment is produced per AP classified
\* offline, in the order fetched, carrying that AP's identity, and none for
\* any other AP: while the assignments are made there is one for each of
\* the first APs classified offline, and at the end one for each.
C5_OneAssignmentPerOfflineAP ==
    /\ InOrderOf(disconnected_aps, all_aps)
    /\ Len(ap_cause_codes) <= Len(disconnected_aps)
    /\ \A i \in DOMAIN ap_cause_codes :
          /\ ap_cause_codes[i].apMac = FirstNonEmpty(disconnected_aps[i],
                    <<"apMac", "mac", "apMacAddress", "macAddress">>)
          /\ ap_cause_codes[i].zoneId = Carried(disconnected_aps[i].zoneId)
          /\ ap_cause_codes[i].model = Carried(disconnected_aps[i].model)
          /\ \E k \in DOMAIN CAUSE_CODES :
                /\ ap_cause_codes[i].causeCode = CAUSE_CODES[k].code
                /\ ap_cause_codes[i].causeDescription = CAUSE_CODES[k].description
                /\ ap_cause_codes[i].impactScore = CAUSE_CODES[k].impactScore
    /\ pc = "done" => Len(ap_cause_codes) = Len(disconnected_aps)

C5_Witness ==
    /\ pc = "done"
    /\ Len(all_aps) = 2
    /\ Len(ap_cause_codes) = 2
    /\ ap_cause_codes[1].apMac = [k |-> "str", n |-> 0, s |-> <<"m", "1">>]
    /\ ap_cause_codes[2].apMac = [k |-> "str", n |-> 0, s |-> <<>>]
    /\ ap_cause_codes[1].causeCode # ap_cause_codes[2].causeCode

\* exact fractions <<numerator, denominator>>, denominator > 0
Frac(a) == <<a, 1>>
FAdd(x, y) == <<x[1] * y[2] + y[1] * x[2], x[2] * y[2]>>
FMul(x, y) == <<x[1] * y[1], x[2] * y[2]>>
FDivInt(x, d) == <<x[1], x[2] * d>>
FLess(x, y) == x[1] * y[2] < y[1] * x[2]
FMax0(x) == IF x[1] > 0 THEN x ELSE <<0, 1>>
\* rounded to 1 decimal, in tenths
Tenths(x) == RoundDiv(10 * x[1], x[2])

\* the RSSI values of a zone's clients that are present, non-null and
\* nonzero
UsableRssi(zone) ==
    LET cs == SelectSeq(all_clients, LAMBDA c :
                  c.zoneId = zone.id /\ c.rssi.k = "num" /\ c.rssi.n # 0)
    IN  [i \in DOMAIN cs |-> cs[i].rssi.n]

MeanOf(xs) == <<SumSeq(xs), Len(xs)>>

\* the scale, as the specification writes it
ScaleOf(mean) ==
    IF ~FLess(mean, Frac(-50)) THEN Frac(100)
    ELSE IF ~FLess(mean, Frac(-70))
         THEN FAdd(Frac(80), FMul(FDivInt(FAdd(mean, Frac(70)), 20), Frac(20)))
    ELSE IF ~FLess(mean, Frac(-85))
         THEN FAdd(Frac(60), FMul(FDivInt(FAdd(mean, Frac(85)), 15), Frac(20)))
    ELSE FMax0(FAdd(Frac(60), FMul(FDivInt(FAdd(mean, Frac(85)), 15), Frac(60))))

\* C6: the mean RSSI of a zone is mapped to experienceScore by the
\* piecewise scale, rounded to 1 decimal; a mean of -50 gives 100, of -60
\* gives 90.0, of -90 gives 40.0.
C6_ScaleOfMeanRssi ==
    MetricsDone =>
        \A i \in DOMAIN frontend_zones :
            LET xs == UsableRssi(frontend_zones[i])
                score == frontend_zones[i].experienceScore
            IN  xs # <<>> =>
                    /\ score = Tenths(ScaleOf(MeanOf(xs)))
                    /\ SumSeq(xs) = (-50) * Len(xs) => score = 1000
                    /\ SumSeq(xs) = (-60) * Len(xs) => score = 900
                    /\ SumSeq(xs) = (-90) * Len(xs) => score = 400

C6_Witness ==
    /\ MetricsDone
    /\ \E i \in DOMAIN frontend_zones :
          /\ UsableRssi(frontend_zones[i]) = <<-70, -110>>
          /\ frontend_zones[i].experienceScore = 400

\* C7: the stored netflixScore equals the stored experienceScore times
\* 0.95, rounded to 1 decimal.
C7_NetflixFromStoredScore ==
    MetricsDone =>
        \A i \in DOMAIN frontend_zones :
            frontend_zones[i].netflixScore
                = RoundDiv(95 * frontend_zones[i].experienceScore, 100)

\* C7 as amended: the stored netflixScore equals the unrounded experience
\* score (the value of the scale before it is rounded for storage) times
\* 0.95, rounded to 1 decimal, and is 0 for a zone with no usable RSSI.
C7_NetflixFromUnroundedScore ==
    MetricsDone =>
        \A i \in DOMAIN frontend_zones :
            LET xs == UsableRssi(frontend_zones[i])
            IN  frontend_zones[i].netflixScore
                    = IF xs # <<>>
                      THEN Tenths(FMul(ScaleOf(MeanOf(xs)), <<95, 100>>))
                      ELSE 0

C7_Witness ==
    /\ MetricsDone
    /\ \E i \in DOMAIN frontend_zones :
          /\ UsableRssi(frontend_zones[i]) = <<-84>>
          /\ frontend_zones[i].experienceScore = 613
          /\ frontend_zones[i].netflixScore = 583

\* C8: for every zone record with non-negative integer apCountOnline and
\* apCountOffline, 0 <= apAvailability <= 100.
C8_AvailabilityInRange ==
    \A i \in DOMAIN frontend_zones :
        ( /\ ruckus_zones[i].apCountOnline.k = "num"
          /\ ruckus_zones[i].apCountOnline.n >= 0
          /\ ruckus_zones[i].apCountOffline.k = "num"
          /\ ruckus_zones[i].apCountOffline.n >= 0 )
        => /\ frontend_zones[i].apAvailability >= 0
           /\ frontend_zones[i].apAvailability <= 1000

C8_Witness ==
    /\ pc = "get_aps"
    /\ Len(frontend_zones) = 1
    /\ ruckus_zones[1].apCountOnline = [k |-> "num", n |-> 2, s |-> <<>>]
    /\ ruckus_zones[1].apCountOffline = [k |-> "num", n |-> 1, s |-> <<>>]
    /\ frontend_zones[1].apAvailability = 667

\* C9: for every zone and every set of client RSSI values, experienceScore
\* and netflixScore both lie in [0, 100].
C9_ScoresInRange ==
    \A i \in DOMAIN frontend_zones :
        /\ frontend_zones[i].experienceScore >= 0
        /\ frontend_zones[i].experienceScore <= 1000
        /\ frontend_zones[i].netflixScore >= 0
        /\ frontend_zones[i].netflixScore <= 1000

C9_Witness ==
    /\ MetricsDone
    /\ \E i \in DOMAIN frontend_zones :
          /\ UsableRssi(frontend_zones[i]) = <<-110, -110>>
          /\ frontend_zones[i].experienceScore = 0
          /\ frontend_zones[i].netflixScore = 0

\* C10: for every zone the derived utilization lies in [0, 100], whatever
\* airtime24G and airtime5G the zone's APs carry.
C10_UtilizationClamped ==
    \A i \in DOMAIN frontend_zones :
        /\ frontend_zones[i].utilization >= 0
        /\ frontend_zones[i].utilization <= 1000

\* rounded to 2 decimals, in hundredths
Hundredths(x) == RoundDiv(100 * x[1], x[2])

\* a count of a raw zone record, a missing one being 0
CountOf(v) == IF v.k = "num" THEN v.n ELSE 0

\* C11: for every normalized zone, totalAPs = apCountOnline +
\* apCountOffline; apAvailability = connectedAPs / totalAPs * 100 rounded to
\* 1 decimal when totalAPs > 0 and 0 otherwise; clientsPerAP = clients /
\* connectedAPs rounded to 2 decimals when connectedAPs > 0 and 0 otherwise;
\* online 18, offline 2, clients 40 gives 20, 90.0 and 2.22.
C11_NormalizationFormulas ==
    \A i \in DOMAIN frontend_zones :
        LET online == CountOf(ruckus_zones[i].apCountOnline)
            offline == CountOf(ruckus_zones[i].apCountOffline)
            clients == CountOf(ruckus_zones[i].clientCount)
            z == frontend_zones[i]
        IN  /\ z.totalAPs = online + offline
            /\ z.connectedAPs = online
            /\ z.apAvailability =
                  IF online + offline > 0
                  THEN Tenths(FMul(<<online, online + offline>>, Frac(100)))
                  ELSE 0
            /\ z.clientsPerAP =
                  IF online > 0 THEN Hundredths(<<clients, online>>) ELSE 0
            /\ (online = 18 /\ offline = 2 /\ clients = 40) =>
                  z.totalAPs = 20 /\ z.apAvailability = 900 /\ z.clientsPerAP = 222

C11_Witness ==
    /\ pc = "get_aps"
    /\ Len(frontend_zones) = 2
    /\ ruckus_zones[1].clientCount = [k |-> "num", n |-> 40, s |-> <<>>]
    /\ frontend_zones[1].totalAPs = 20
    /\ frontend_zones[1].apAvailability = 900
    /\ frontend_zones[1].clientsPerAP = 222
    /\ frontend_zones[2].connectedAPs = 0
    /\ frontend_zones[2].totalAPs = 3
    /\ frontend_zones[2].apAvailability = 0
    /\ frontend_zones[2].clientsPerAP = 0

\* an airtime value of a raw AP record, a missing or null one being 0
AirtimeOf(v) == IF v.k = "num" THEN v.n ELSE 0

\* the APs of a zone that report an airtime value > 0
ReportingAps(zone) ==
    SelectSeq(all_aps, LAMBDA ap :
        /\ ap.zoneId = zone.id
        /\ (AirtimeOf(ap.airtime24G) > 0 \/ AirtimeOf(ap.airtime5G) > 0))

\* the mean of the samples (airtime24G + airtime5G) / 2 of these APs
MeanSample(aps) ==
    <<SumSeq([i \in DOMAIN aps |->
                AirtimeOf(aps[i].airtime24G) + AirtimeOf(aps[i].airtime5G)]),
      2 * Len(aps)>>

\* C12: a zone's utilization is the mean, rounded to 1 decimal, of one
\* sample (airtime24G + airtime5G) / 2 per AP of that zone that reports
\* either airtime value > 0, and 0 when no AP of the zone reports one; APs
\* reporting neither value and APs of another zone contribute nothing.
C12_UtilizationOfPositiveSamples ==
    MetricsDone =>
        \A i \in DOMAIN frontend_zones :
            LET aps == ReportingAps(frontend_zones[i])
            IN  frontend_zones[i].utilization =
                    IF aps # <<>> THEN Tenths(MeanSample(aps)) ELSE 0

\* C13: only RSSI values that are present, non-null and nonzero enter a
\* zone's mean RSSI (the score is the scale of the mean of exactly these);
\* a zone with no such value (no clients, or only clients with a null or
\* zero RSSI) keeps the experienceScore and netflixScore 0 of normalization.
C13_OnlyUsableRssiCounts ==
    MetricsDone =>
        \A i \in DOMAIN frontend_zones :
            LET z == frontend_zones[i]
                mine == SelectSeq(all_clients, LAMBDA c : c.zoneId = z.id)
                used == SelectSeq(mine, LAMBDA c :
                            c.rssi.k \notin {"absent", "null"} /\ c.rssi.n # 0)
                mean == <<SumSeq([j \in DOMAIN used |-> used[j].rssi.n]), Len(used)>>
            IN  IF used = <<>>
                THEN z.experienceScore = 0 /\ z.netflixScore = 0
                ELSE z.experienceScore = Tenths(ScaleOf(mean))

C13_Witness ==
    /\ MetricsDone
    /\ Len(frontend_zones) = 2
    /\ Len(all_clients) = 2
    /\ all_clients[1].zoneId = frontend_zones[1].id
    /\ all_clients[1].rssi = [k |-> "num", n |-> 0, s |-> <<>>]
    /\ all_clients[2].zoneId = frontend_zones[1].id
    /\ all_clients[2].rssi = [k |-> "num", n |-> -60, s |-> <<>>]
    /\ frontend_zones[1].experienceScore = 900
    /\ frontend_zones[2].experienceScore = 0
    /\ frontend_zones[2].netflixScore = 0

\* the same zone when its only clients carry a null and a zero RSSI
C13_WitnessNoValue ==
    /\ MetricsDone
    /\ Len(all_clients) = 2
    /\ all_clients[1].zoneId = frontend_zones[1].id
    /\ all_clients[1].rssi.k = "null"
    /\ all_clients[2].zoneId = frontend_zones[1].id
    /\ all_clients[2].rssi = [k |-> "num", n |-> 0, s |-> <<>>]
    /\ frontend_zones[1].experienceScore = 0
    /\ frontend_zones[1].netflixScore = 0

\* the cycle has built the venue summary
VenueDone == pc \in {"classify", "cause_codes", "done"}

C14_WitnessNoZones ==
    /\ VenueDone
    /\ frontend_zones = <<>>
    /\ venue_data.slaCompliance = 0

\* C15: the venue summary's avgExperienceScore equals the mean, rounded to
\* 1 decimal, of experienceScore over exactly the zones whose score is > 0,
\* and 0 when no zone has a positive score; a zone with score 0 adds
\* neither to the sum nor to the divisor.
C15_AvgOverPositiveScores ==
    VenueDone =>
        LET positive == SelectSeq(frontend_zones, LAMBDA z : z.experienceScore > 0)
            total == SumSeq([i \in DOMAIN positive |-> positive[i].experienceScore])
        IN  venue_data.avgExperienceScore =
                IF positive = <<>> THEN 0
                ELSE Tenths(FDivInt(<<total, Len(positive)>>, 10))

C15_Witness ==
    /\ VenueDone
    /\ Len(frontend_zones) = 3
    /\ frontend_zones[1].experienceScore = 900
    /\ frontend_zones[2].experienceScore = 0
    /\ frontend_zones[3].experienceScore = 400
    /\ venue_data.avgExperienceScore = 650

\* C16: after construction the weighted pool contains each of the eighteen
\* table definitions exactly weight times and nothing else (so a uniform
\* draw selects a definition with probability weight / sum of weights), and
\* no sequence of assign / assignAll calls changes the pool.
C16_PoolIsWeightedTable ==
    /\ Len(CAUSE_CODES) = 18
    /\ BagToSet(weighted_codes) = DOMAIN CAUSE_CODES
    /\ \A k \in DOMAIN CAUSE_CODES :
          CopiesIn(k, weighted_codes) = CAUSE_CODES[k].weight
    /\ BagCardinality(weighted_codes) =
          SumSeq([k \in DOMAIN CAUSE_CODES |-> CAUSE_CODES[k].weight])

C16_Witness ==
    /\ pc = "done"
    /\ Len(ap_cause_codes) = 2
    /\ ap_cause_codes[1].causeCode = 25
    /\ ap_cause_codes[2].causeCode = 204
    /\ CopiesIn(1, weighted_codes) = 213

LastAP == disconnected_aps[Len(ap_cause_codes)]
LastAssignment == ap_cause_codes[Len(ap_cause_codes)]

\* an assignment carries the code, description and impactScore of the k-th
\* definition of the table
IsDefinition(a, k) ==
    /\ k \in DOMAIN CAUSE_CODES
    /\ a.causeCode = CAUSE_CODES[k].code
    /\ a.causeDescription = CAUSE_CODES[k].description
    /\ a.impactScore = CAUSE_CODES[k].impactScore

\* the model field contains the letter T or the letter H, in any case
HasTorH(ap) ==
    /\ ap.model.k = "str"
    /\ \E i \in DOMAIN ap.model.s : ap.model.s[i] \in {"T", "t", "H", "h"}

\* C18: for every AP record whose model is missing, null, empty or contains
\* neither T nor H in any case, assign never takes the override branch: it
\* returns the definition selected by the first weighted draw.
C18_PlainModelKeepsFirstDraw ==
    (ap_cause_codes # <<>> /\ ~HasTorH(LastAP)) =>
        /\ ~draw.override
        /\ draw.second = 0
        /\ IsDefinition(LastAssignment, draw.first)

C18_Witness ==
    /\ Len(ap_cause_codes) = 1
    /\ LastAP.model = [k |-> "str", n |-> 0, s |-> <<"R", "5", "1", "0">>]
    /\ draw.first = 14
    /\ ~draw.override
    /\ LastAssignment.causeCode = 200

\* the same for an AP whose model is null
C18_WitnessNull ==
    /\ Len(ap_cause_codes) = 1
    /\ LastAP.model.k = "null"
    /\ draw.first = 1
    /\ LastAssignment.causeCode = 25

\* cs contains sub, ignoring the case of cs (sub is in lower case)
ContainsIgnoringCase(cs, sub) ==
    \E off \in 0..(Len(cs) - Len(sub)) :
        \A j \in DOMAIN sub : LowerChar(cs[off + j]) = sub[j]

MentionsPowerNetworkOrHeartbeat(description) ==
    \/ ContainsIgnoringCase(description, <<"p", "o", "w", "e", "r">>)
    \/ ContainsIgnoringCase(description, <<"n", "e", "t", "w", "o", "r", "k">>)
    \/ ContainsIgnoringCase(description, <<"h", "e", "a", "r", "t", "b", "e", "a", "t">>)

\* C19: for every AP record whose model contains T or H in any case,
\* whenever the override branch is taken (the 0.3-probability draw
\* succeeds) the returned code, description and impactScore are those of
\* one table definition whose description contains "power", "network" or
\* "heartbeat" ignoring case, the second sample replacing the first.
C19_OverrideReturnsPowerCode ==
    (ap_cause_codes # <<>> /\ HasTorH(LastAP) /\ draw.override) =>
        \E k \in DOMAIN CAUSE_CODES :
            /\ k = draw.second
            /\ IsDefinition(LastAssignment, k)
            /\ MentionsPowerNetworkOrHeartbeat(CAUSE_CODES[k].description)

C19_Witness ==
    /\ Len(ap_cause_codes) = 1
    /\ LastAP.model = [k |-> "str", n |-> 0, s |-> <<"t", "3", "5", "0">>]
    /\ draw.override
    /\ draw.first = 1
    /\ draw.second = 16
    /\ LastAssignment.causeCode = 202

\* C20: generate_cause_codes_for_aps returns a list of the same length as
\* its input whose i-th element carries the identity of the i-th input AP;
\* for an empty input it returns an empty list.
C20_AssignAllKeepsLengthAndOrder ==
    pc = "done" =>
        /\ Len(ap_cause_codes) = Len(disconnected_aps)
        /\ disconnected_aps = <<>> => ap_cause_codes = <<>>
        /\ \A i \in DOMAIN disconnected_aps :
              /\ ap_cause_codes[i].apMac = FirstNonEmpty(disconnected_aps[i],
                    <<"apMac", "mac", "apMacAddress", "macAddress">>)
              /\ ap_cause_codes[i].zoneId = Carried(disconnected_aps[i].zoneId)
              /\ ap_cause_codes[i].model = Carried(disconnected_aps[i].model)

C20_Witness ==
    /\ pc = "done"
    /\ Len(disconnected_aps) = 2
    /\ disconnected_aps[1].apMac = [k |-> "str", n |-> 0, s |-> <<"m", "2">>]
    /\ disconnected_aps[2].apMac = [k |-> "str", n |-> 0, s |-> <<"m", "1">>]
    /\ ap_cause_codes[1].apMac = [k |-> "str", n |-> 0, s |-> <<"m", "2">>]
    /\ ap_cause_codes[1].model = [k |-> "str", n |-> 0, s |-> <<"R", "5", "1", "0">>]
    /\ ap_cause_codes[2].apMac = [k |-> "str", n |-> 0, s |-> <<"m", "1">>]
    /\ ap_cause_codes[2].model = [k |-> "str", n |-> 0, s |-> <<"T", "3", "5", "0">>]

\* the call on an empty list
C20_WitnessEmpty ==
    /\ pc = "done"
    /\ disconnected_aps = <<>>
    /\ ap_cause_codes = <<>>

\* C21: in each assignment apMac is the first non-empty value among the
\* AP's fields apMac, mac, apMacAddress, macAddress in that order, apName
\* the first non-empty among deviceName, name, apName in that order; each
\* of apMac, apName, zoneId, zoneName and model is the empty string when
\* every candidate field is missing, null or empty.
C21_IdentityFallbacks ==
    \A i \in DOMAIN ap_cause_codes :
        LET ap == disconnected_aps[i]
            a == ap_cause_codes[i]
        IN  /\ a.apMac = FirstNonEmpty(ap, <<"apMac", "mac", "apMacAddress", "macAddress">>)
            /\ a.apName = FirstNonEmpty(ap, <<"deviceName", "name", "apName">>)
            /\ a.zoneId = FirstNonEmpty(ap, <<"zoneId">>)
            /\ a.zoneName = FirstNonEmpty(ap, <<"zoneName">>)
            /\ a.model = FirstNonEmpty(ap, <<"model">>)

C21_Witness ==
    /\ Len(ap_cause_codes) = 1
    /\ ValueOf(disconnected_aps[1], "apMac").k = "null"
    /\ ValueOf(disconnected_aps[1], "mac") = [k |-> "str", n |-> 0, s |-> <<>>]
    /\ ValueOf(disconnected_aps[1], "apMacAddress").k = "absent"
    /\ ValueOf(disconnected_aps[1], "macAddress") = [k |-> "str", n |-> 0, s |-> <<"d">>]
    /\ ap_cause_codes[1].apMac = [k |-> "str", n |-> 0, s |-> <<"d">>]
    /\ ap_cause_codes[1].apName = [k |-> "str", n |-> 0, s |-> <<>>]

\* the names, with a device name that is empty and a name that is set
C21_WitnessName ==
    /\ Len(ap_cause_codes) = 1
    /\ ValueOf(disconnected_aps[1], "deviceName") = [k |-> "str", n |-> 0, s |-> <<>>]
    /\ ValueOf(disconnected_aps[1], "apName") = [k |-> "str", n |-> 0, s |-> <<"c">>]
    /\ ap_cause_codes[1].apName = [k |-> "str", n |-> 0, s |-> <<"b">>]
    /\ ap_cause_codes[1].zoneName = [k |-> "str", n |-> 0, s |-> <<>>]

\* C22: the zone metrics and the venue summary of a cycle are a function of
\* that cycle's zone, AP and client records alone: a cycle given the same
\* records as an earlier cycle yields the same zone metrics and the same
\* venue summary, whatever cycles ran before or in between.
C22_SameInputsSameResults ==
    ( /\ VenueDone
      /\ previous.recorded
      /\ previous.zones = ruckus_zones
      /\ previous.aps = all_aps
      /\ previous.clients = all_clients )
    => /\ frontend_zones = previous.metrics
       /\ venue_data = previous.venue

C22_Witness ==
    /\ pc = "done"
    /\ previous.recorded
    /\ previous.zones = ruckus_zones
    /\ previous.aps = all_aps
    /\ previous.clients = all_clients
    /\ Len(all_aps) = 2
    /\ Len(all_clients) = 1
    /\ frontend_zones[1].utilization = 500
    /\ frontend_zones[1].experienceScore = 900
    /\ previous.venue.avgExperienceScore = 900

\* C23: neither core component mutates its input: zone normalization,
\* metric derivation, venue summarization, offline classification and
\* cause-code assignment leave the raw zone, AP and client records fetched
\* for the cycle, the list of APs handed to the assigner and the static
\* cause-code table (the pool built from it) unchanged.
C23_InputsNotMutated ==
    [][ /\ pc \in {"transform_zones", "get_aps", "get_clients", "metrics",
                   "venue", "classify", "cause_codes"}
            => ruckus_zones' = ruckus_zones
        /\ pc \in {"get_clients", "metrics", "venue", "classify", "cause_codes"}
            => all_aps' = all_aps
        /\ pc \in {"metrics", "venue", "classify", "cause_codes"}
            => all_clients' = all_clients
        /\ pc = "cause_codes" => disconnected_aps' = disconnected_aps
        /\ weighted_codes' = weighted_codes ]_vars

C23_Witness ==
    /\ pc = "done"
    /\ ruckus_zones = <<ZoneRec(Z1, Num(18), Num(2), Num(40))>>
    /\ Len(all_aps) = 2
    /\ all_clients = <<ClientRec(Z1, Num(-110)), ClientRec(Z1, Num(-60))>>
    /\ frontend_zones[1].utilization = 500
    /\ frontend_zones[1].experienceScore = 600
    /\ Len(ap_cause_codes) = 1
    /\ ~previous.recorded

\* C24: the sequence of cause codes an assigner constructed with a given
\* seed returns for a given sequence of AP records is the same on every
\* run, also when another assigner instance is constructed or used between
\* its calls: its k-th call returns what the k-th draw after seeding with
\* its seed returns, as in a run in which it is the only assigner.
C24_SeededSequenceIsFixed ==
    \A i \in DOMAIN seeded :
        seeded[i] # None =>
            \A k \in DOMAIN returned[i] :
                returned[i][k] = [seed |-> seeded[i], drawn |-> k - 1]

\* C25: when a step of a collection cycle raises before the write step,
\* collect_and_store logs it and returns normally, no batch is written in
\* that cycle, and run_continuous goes on: it returns only when stop()
\* has been called, never because of a failed cycle.
C25_FailedCycleIsLoggedAndSkipped ==
    /\ failed => written = <<>>
    /\ failed => at \in {"except", "return", "if", "sleep", "while", "returned"}
    /\ (failed /\ at # "except") => logged
    /\ failures <= started
    /\ at = "returned" => stop_called = "in_loop"

\* a cycle has failed while building points, was logged, and the loop has
\* started the next cycle, which has reached its write step
C25_Witness ==
    /\ failures = 1
    /\ started = 2
    /\ ~failed
    /\ at = "return"
    /\ written # <<>>
    /\ stop_called = "never"

\* a cycle fails after some points have been built: nothing is written
C25_WitnessPoints ==
    /\ failed
    /\ logged
    /\ points # <<>>
    /\ at = "sleep"
    /\ running

\* C26: collection cycles never overlap: at most one call of
\* collect_and_store is in progress at any time, and a call starts only
\* when every earlier call has returned and, if there was one, the interval
\* has been slept since it returned.
C26_CyclesNeverOverlap ==
    /\ [](started - finished \in {0, 1})
    /\ [][started' # started =>
            /\ started = finished
            /\ started > 0 => waited]_vars

C26_Witness ==
    /\ started = 2
    /\ finished = 1
    /\ at = "get_aps"

\* C27: in each cycle write_points is called at most once, after every
\* fetch and derivation and after the points of every group are built,
\* with all points in one batch, and every point of the batch carries the
\* timestamp read at the start of the cycle.
C27_OneBatchOneTimestamp ==
    /\ Len(written) <= 1
    /\ written # <<>> =>
          /\ at \in {"return", "if", "sleep", "while", "returned"}
          /\ written[1] = points
          /\ group = Len(Groups)
          /\ \E i \in DOMAIN points : points[i].measurement = "venue"
          /\ \A i \in DOMAIN written[1] : written[1][i].time = timestamp
    /\ timestamp <= clock

\* a batch with a point of every group, written after the clock has moved on
C27_Witness ==
    /\ Len(written) = 1
    /\ Len(written[1]) = Len(Groups)
    /\ clock > timestamp

RecordsOf(res) ==
    IF ~res.none /\ res.body.list_kind = "list" THEN res.body.items ELSE <<>>

RECURSIVE Concatenation(_)
Concatenation(rs) ==
    IF rs = <<>> THEN <<>>
    ELSE Concatenation(SubSeq(rs, 1, Len(rs) - 1)) \o RecordsOf(rs[Len(rs)])

\* a page request failed (None, or an empty body) or its response has no list
FailedOrNoList(res) == res.none \/ res.body.list_kind = "absent"

C28_WitnessFailure ==
    /\ mr = "returned"
    /\ fn = "get_clients"
    /\ Len(replies) = 2
    /\ replies[2].none
    /\ fetched = <<"r2">>

\* C29: within one _make_request call a 401 clears the authenticated flag
\* and is followed by at most one re-login and, only when that re-login
\* succeeded, at most one repetition of the request; the call returns the
\* parsed body when the response it ends with is a success and None when
\* the re-login failed, the repetition failed or the network failed; the
\* flag becomes true only in a login that got status 200.
C29_OneReloginOneRetry ==
    /\ [](/\ relogins <= 1
          /\ retries <= 1
          /\ retries = 1 => (relogins = 1 /\ relogin_ok)
          /\ mr = "relogin" => ~authenticated
          /\ mr = "retry" => (authenticated /\ response.status = 401)
          /\ mr = "done" =>
                /\ result.none <=> (response.error \/ response.status >= 400)
                /\ ~result.none => result.body = response.body
                /\ (relogins = 1 /\ ~relogin_ok) => result.none)
    /\ [][(mr = "check" /\ response.status = 401) => ~authenticated']_vars
    /\ [][(~authenticated /\ authenticated') =>
            (mr \in {"ensure", "relogin"} /\ login_status' = 200)]_vars

\* a 401, a re-login that succeeded, and a repetition that brought a list
C29_Witness ==
    /\ mr = "done"
    /\ retries = 1
    /\ ~result.none
    /\ result.body.items = <<"r1">>

\* a 401 and a re-login that failed
C29_WitnessReloginFailed ==
    /\ mr = "done"
    /\ relogins = 1
    /\ ~relogin_ok
    /\ retries = 0
    /\ result.none
    /\ ~authenticated

====
